---------------------------- MODULE Spec2Model ----------------------------
(***************************************************************************)
(* Model of the Modbus frame codec of the HCP TC038D driver                *)
(* (pymeasure/instruments/hcp/tc038dMM.py): CRC16, the frame encoder       *)
(* xwrite, the frame decoder xread and the ModbusMixin write/read pair;    *)
(* and of the Prologix GPIB adapter (pymeasure/adapters/prologix.py):      *)
(* adapters that share one serial connection.                              *)
(*                                                                         *)
(* Bytes are integers 0..255, byte strings are sequences of bytes, and     *)
(* Python text (commands, returned strings) is a sequence of one-character *)
(* strings, so that splitting, parsing and formatting are computed.        *)
(***************************************************************************)
EXTENDS Integers, Sequences, FiniteSets, TLC

VARIABLES
    address,    \* TC038D.address, the device (slave) address
    byteMode,   \* TC038D.byteMode, width in bytes of one register value
    buffer,     \* ModbusMixin._buffer, result of the last handler call
    tx,         \* frames handed to the transport by write_bytes, not yet taken by the device
    rx,         \* bytes the device has sent that read_bytes has not consumed yet
    last,       \* the most recent step: the call or device send, its input and its outcome
    crcData,    \* CRC16: the argument data
    crcPos,     \* CRC16: index of the octet of the outer loop
    crcBit,     \* CRC16: j, the iteration of the inner loop
    CRC,        \* CRC16: the register
    crcPc,      \* CRC16: position in the function
    crcRet,     \* CRC16: the returned bytes
    adapters,   \* the PrologixAdapter objects: address, connection, position in write
    connections, \* the serial.Serial objects: open or closed, and what was written to them
    called,     \* the most recent call on an adapter, or step of the GPIB controller
    srq         \* wait_for_srq: its arguments, the time slept and the last poll

codecVars == <<address, byteMode, buffer, tx, rx, last>>
crcVars == <<crcData, crcPos, crcBit, CRC, crcPc, crcRet>>
gpibVars == <<adapters, connections, called, srq>>
vars == <<address, byteMode, buffer, tx, rx, last,
          crcData, crcPos, crcBit, CRC, crcPc, crcRet,
          adapters, connections, called, srq>>

(***************************************************************************)
(* Bounds of the model.                                                    *)
(***************************************************************************)
\* Longest byte sequence (over CrcSample) given to the step-wise CRC16.
MaxData == 3
\* Most value tokens in a command.
MaxValues == 2

\* Bytes of the multi-byte inputs of the step-wise CRC16.
CrcSample == {0, 1, 3, 128, 255}

(***************************************************************************)
(* Integer arithmetic of Python's bit operators on non-negative integers.  *)
(***************************************************************************)
RECURSIVE Xor(_, _)
\* a ^ b
Xor(a, b) ==
    IF a = 0 THEN b
    ELSE IF b = 0 THEN a
    ELSE (((a % 2) + (b % 2)) % 2) + 2 * Xor(a \div 2, b \div 2)

RECURSIVE Pow2(_)
Pow2(n) == IF n = 0 THEN 1 ELSE 2 * Pow2(n - 1)

\* Sequences over S of length 0..n.
SeqsUpTo(S, n) == UNION {[1..k -> S] : k \in 0..n}

(***************************************************************************)
(* CRC16 (tc038dMM.py, 131-141).                                           *)
(***************************************************************************)
\* CRC = 0xFFFF
CrcInit == 65535
\* CRC ^= octet
CrcXorOctet(crc, octet) == Xor(crc, octet)

\* n ^ w for w a power of two: the bit of weight w changes.
ToggleBit(n, w) == IF (n \div w) % 2 = 1 THEN n - w ELSE n + w

\* CRC ^= 0xA001, bit by bit: 0xA001 = 0x8000 + 0x2000 + 0x0001
XorPoly(crc) == ToggleBit(ToggleBit(ToggleBit(crc, 1), 8192), 32768)

\* CrcShift with the polynomial applied before the shift instead of after it.
CrcShiftXorFirst(crc) ==
    IF crc % 2 # 0 THEN XorPoly(crc) \div 2 ELSE crc \div 2

\* One pass of the inner loop: lsb = CRC & 1; CRC = CRC >> 1; if lsb: CRC ^= 0xA001
CrcShift(crc) ==
    LET lsb == crc % 2
        shifted == crc \div 2
    IN  IF lsb # 0 THEN XorPoly(shifted) ELSE shifted

RECURSIVE CrcBits(_, _)
\* for j in range(8): the n remaining passes. (The test of the register makes
\* TLC compute it before the next pass; a register is never negative.)
CrcBits(crc, n) ==
    IF n = 0 THEN crc
    ELSE LET shifted == CrcShift(crc)
         IN  IF shifted >= 0 THEN CrcBits(shifted, n - 1) ELSE shifted

RECURSIVE CrcOctets(_, _, _)
\* for octet in data, from index i on
CrcOctets(crc, data, i) ==
    IF i > Len(data) THEN crc
    ELSE LET after == CrcBits(CrcXorOctet(crc, data[i]), 8)
         IN  IF after >= 0 THEN CrcOctets(after, data, i + 1) ELSE after

\* return bytes([CRC & 0xFF, CRC >> 8])
CrcReturn(crc) == <<crc % 256, crc \div 256>>

\* CRC16(data) as a function of its argument.
CRC16(data) == CrcReturn(CrcOctets(CrcInit, data, 1))

(***************************************************************************)
(* CRC16 step by step: one step per statement of the loops.                *)
(***************************************************************************)
CrcInputs == {<<b>> : b \in 0..255} \cup SeqsUpTo(CrcSample, MaxData)

CrcStart ==
    /\ crcData \in CrcInputs
    /\ crcPos = 1
    /\ crcBit = 0
    /\ CRC = CrcInit
    /\ crcPc = "octet"
    /\ crcRet = <<>>

\* for octet in data: CRC ^= octet
CrcNextOctet ==
    /\ crcPc = "octet"
    /\ crcPos <= Len(crcData)
    /\ CRC' = CrcXorOctet(CRC, crcData[crcPos])
    /\ crcBit' = 0
    /\ crcPc' = "bit"
    /\ UNCHANGED <<crcData, crcPos, crcRet>>

\* for j in range(8): one pass
CrcNextBit ==
    /\ crcPc = "bit"
    /\ crcBit < 8
    /\ CRC' = CrcShift(CRC)
    /\ crcBit' = crcBit + 1
    /\ UNCHANGED <<crcData, crcPos, crcPc, crcRet>>

\* the inner loop is exhausted: on to the next octet
CrcEndBits ==
    /\ crcPc = "bit"
    /\ crcBit = 8
    /\ crcPos' = crcPos + 1
    /\ crcPc' = "octet"
    /\ UNCHANGED <<crcData, crcBit, CRC, crcRet>>

\* the outer loop is exhausted: return
CrcDone ==
    /\ crcPc = "octet"
    /\ crcPos > Len(crcData)
    /\ crcRet' = CrcReturn(CRC)
    /\ crcPc' = "done"
    /\ UNCHANGED <<crcData, crcPos, crcBit, CRC>>

(***************************************************************************)
(* Bounds of the adapter model and the state before any adapter is made.   *)
(***************************************************************************)
\* Most PrologixAdapter objects and serial connections made in one behaviour.
MaxAdapters == 2
MaxConnections == 1
\* A call of write waits for the GPIB controller to take what was written
\* once the connection holds this many writes.
MaxLink == 2
\* The time slept in wait_for_srq is counted up to this many delays.
MaxElapsed == 3

\* address: None or an integer
None == [bound |-> FALSE, n |-> 0]
Bound(n) == [bound |-> TRUE, n |-> n]

NoAdapter == [state |-> "none", address |-> None, connection |-> 0, from |-> 0,
              pc |-> "idle", command |-> <<>>]
NoConnection == [state |-> "none", link |-> <<>>]
NotCalled == [op |-> "none", adapter |-> 0, command |-> <<>>, raised |-> FALSE]
SrqIdle == [pc |-> "idle", adapter |-> 0, timeout |-> 0, elapsed |-> 0,
            polled |-> FALSE, answer |-> 0, lines |-> <<>>]

GpibIdle ==
    /\ adapters = [a \in 1..MaxAdapters |-> NoAdapter]
    /\ connections = [c \in 1..MaxConnections |-> NoConnection]
    /\ called = NotCalled
    /\ srq = SrqIdle

\* _buffer before the first write: the attribute does not exist yet.
NoBuffer == [set |-> FALSE, none |-> TRUE, int |-> 0]

CodecIdle ==
    /\ address = 1
    /\ byteMode = 4
    /\ buffer = NoBuffer
    /\ tx = <<>>
    /\ rx = <<>>
    /\ last = [op |-> "init"]

InitCRC == CrcStart /\ CodecIdle /\ GpibIdle

NextCRC ==
    \/ CrcNextOctet /\ UNCHANGED <<codecVars, gpibVars>>
    \/ CrcNextBit /\ UNCHANGED <<codecVars, gpibVars>>
    \/ CrcEndBits /\ UNCHANGED <<codecVars, gpibVars>>
    \/ CrcDone /\ UNCHANGED <<codecVars, gpibVars>>

SpecCRC == InitCRC /\ [][NextCRC]_vars

(***************************************************************************)
(* The Modbus reference register, on sets of bit positions: bit i of the   *)
(* register is set iff i is in the set.                                    *)
(***************************************************************************)
RECURSIVE BitsOf(_, _)
\* The set of positions of the bits set in n, counted from position p.
BitsOf(n, p) ==
    IF n = 0 THEN {}
    ELSE (IF n % 2 = 1 THEN {p} ELSE {}) \cup BitsOf(n \div 2, p + 1)

RECURSIVE ValueOf(_)
ValueOf(S) ==
    IF S = {} THEN 0
    ELSE LET i == CHOOSE x \in S : TRUE IN Pow2(i) + ValueOf(S \ {i})

SymDiff(S, T) == (S \ T) \cup (T \ S)
ShiftRight(S) == {i - 1 : i \in S \ {0}}
\* 0xA001 = 2^15 + 2^13 + 2^0
PolyBits == {0, 13, 15}
RefStep(S) == IF 0 \in S THEN SymDiff(ShiftRight(S), PolyBits) ELSE ShiftRight(S)

RECURSIVE RefSteps(_, _)
RefSteps(S, n) ==
    IF n = 0 THEN S
    ELSE LET T == RefStep(S) IN IF T = {} THEN RefSteps({}, n - 1) ELSE RefSteps(T, n - 1)

RECURSIVE RefRegister(_, _)
\* The reference register after the first k octets of data.
RefRegister(data, k) ==
    IF k = 0 THEN 0..15
    ELSE RefSteps(SymDiff(RefRegister(data, k - 1), BitsOf(data[k], 0)), 8)

\* The reference register where the step-wise CRC16 stands.
RefHere ==
    IF crcPc = "bit"
    THEN RefSteps(SymDiff(RefRegister(crcData, crcPos - 1), BitsOf(crcData[crcPos], 0)), crcBit)
    ELSE RefRegister(crcData, crcPos - 1)

\* The two checksum bytes of a reference register, low byte first.
RefBytes(S) == <<ValueOf(S \cap (0..7)), ValueOf({i - 8 : i \in S \cap (8..15)})>>

\* The reference Modbus CRC16 of a byte sequence.
ModbusCRC(data) == RefBytes(RefRegister(data, Len(data)))

(***************************************************************************)
(* C1: at every step of CRC16 the register is the reference Modbus         *)
(* register and lies in 0..0xFFFF; the value returned is the two bytes     *)
(* [register & 0xFF, register >> 8] of the reference register after the    *)
(* last octet, for every input including the empty one.                    *)
(***************************************************************************)
C1_CRC16IsModbus ==
    /\ CRC \in 0..65535
    /\ CRC = ValueOf(RefHere)
    /\ crcPc = "done" =>
        /\ Len(crcRet) = 2
        /\ crcRet = ModbusCRC(crcData)
        /\ crcRet = CRC16(crcData)
        /\ crcRet[1] + 256 * crcRet[2] = CRC

\* CRC16 has returned for an input of more than one octet with a register
\* that has bits in both bytes, and for the empty input.
C1_Witness ==
    /\ crcPc = "done"
    /\ crcData = <<1, 3, 0>>
    /\ crcRet[1] # 0 /\ crcRet[2] # 0

(***************************************************************************)
(* Python text: str.split, the "in" test, int() and str().                 *)
(***************************************************************************)
DigitsLower == <<"0", "1", "2", "3", "4", "5", "6", "7", "8", "9",
                 "a", "b", "c", "d", "e", "f">>
DigitsUpper == <<"0", "1", "2", "3", "4", "5", "6", "7", "8", "9",
                 "A", "B", "C", "D", "E", "F">>
\* The value of a character as a digit; 99 for a character that is no digit.
DigitValue(c) ==
    IF \E i \in 1..16 : DigitsLower[i] = c
    THEN (CHOOSE i \in 1..16 : DigitsLower[i] = c) - 1
    ELSE IF \E i \in 1..16 : DigitsUpper[i] = c
    THEN (CHOOSE i \in 1..16 : DigitsUpper[i] = c) - 1
    ELSE 99

\* c in text
Contains(text, c) == \E i \in 1..Len(text) : text[i] = c

RECURSIVE Split(_, _)
\* text.split(sep) for a one-character separator: never an empty list.
Split(text, sep) ==
    IF ~Contains(text, sep) THEN <<text>>
    ELSE LET i == CHOOSE k \in 1..Len(text) :
                      text[k] = sep /\ \A m \in 1..(k - 1) : text[m] # sep
         IN  <<SubSeq(text, 1, i - 1)>> \o Split(SubSeq(text, i + 1, Len(text)), sep)

RECURSIVE DigitsValue(_, _, _)
\* The digits of text, most significant first, accumulated onto acc.
DigitsValue(text, base, acc) ==
    IF text = <<>> THEN acc
    ELSE DigitsValue(Tail(text), base, acc * base + DigitValue(Head(text)))

\* int(text, base) for base 10 and 16: an optional sign, with base 16 an
\* optional 0x or 0X, then one or more digits of the base; anything else is a
\* ValueError. (The tokens of the model hold no blanks and no underscores.)
PyInt(text, base) ==
    LET signed == text # <<>> /\ Head(text) \in {"-", "+"}
        negative == signed /\ Head(text) = "-"
        unsignedText == IF signed THEN Tail(text) ELSE text
        prefixed == /\ base = 16
                    /\ Len(unsignedText) >= 2
                    /\ unsignedText[1] = "0"
                    /\ unsignedText[2] \in {"x", "X"}
        digits == IF prefixed THEN SubSeq(unsignedText, 3, Len(unsignedText))
                  ELSE unsignedText
        valid == /\ digits # <<>>
                 /\ \A i \in 1..Len(digits) : DigitValue(digits[i]) < base
        magnitude == DigitsValue(digits, base, 0)
    IN  IF valid
        THEN [ok |-> TRUE, value |-> IF negative THEN 0 - magnitude ELSE magnitude]
        ELSE [ok |-> FALSE, value |-> 0]

RECURSIVE NatStr(_)
\* The decimal digits of a natural number.
NatStr(n) ==
    IF n < 10 THEN <<DigitsLower[n + 1]>>
    ELSE NatStr(n \div 10) \o <<DigitsLower[(n % 10) + 1]>>

\* str(n) of an integer; the last digit of a negative number is split off
\* before the sign is dropped.
PyStr(n) ==
    IF n >= 0 THEN NatStr(n)
    ELSE LET d == (10 - (n % 10)) % 10
             rest == 0 - ((n + d) \div 10)
         IN  <<"-">> \o (IF rest = 0 THEN <<>> ELSE NatStr(rest)) \o <<DigitsLower[d + 1]>>

(***************************************************************************)
(* int.to_bytes and int.from_bytes, byte order "big".                      *)
(***************************************************************************)
RECURSIVE Pow256(_)
Pow256(n) == IF n = 0 THEN 1 ELSE 256 * Pow256(n - 1)

\* ToBytes that keeps the low bytes of a number that does not fit.
ToBytesTruncating(n, length, signed) ==
    [ok |-> TRUE, bytes |-> [k \in 1..length |-> (n \div Pow256(length - k)) % 256]]

\* n.to_bytes(length, "big", signed=signed): OverflowError when n does not fit.
ToBytes(n, length, signed) ==
    LET top == IF length = 0 THEN n ELSE n \div Pow256(length - 1)
        fits == IF length = 0 THEN n = 0
                ELSE IF signed THEN top \in -128..127
                ELSE top \in 0..255
    IN  IF fits
        THEN [ok |-> TRUE,
              bytes |-> [k \in 1..length |-> (n \div Pow256(length - k)) % 256]]
        ELSE [ok |-> FALSE, bytes |-> <<>>]

RECURSIVE FromBytesAcc(_, _)
FromBytesAcc(bytes, acc) ==
    IF bytes = <<>> THEN acc ELSE FromBytesAcc(Tail(bytes), acc * 256 + Head(bytes))

\* FromBytes that reads every byte string as unsigned.
FromBytesUnsigned(bytes, signed) == FromBytesAcc(bytes, 0)

\* int.from_bytes(bytes, "big", signed=signed)
FromBytes(bytes, signed) ==
    IF bytes = <<>> THEN 0
    ELSE IF signed /\ Head(bytes) >= 128
    THEN FromBytesAcc(Tail(bytes), Head(bytes) - 256)
    ELSE FromBytesAcc(bytes, 0)

(***************************************************************************)
(* Outcomes of a call.                                                     *)
(***************************************************************************)
\* The call returned None.
ReturnNone ==
    [kind |-> "return", exc |-> "", msg |-> "", hasValue |-> FALSE, text |-> <<>>, raw |-> <<>>]
\* The call returned a string.
ReturnText(t) ==
    [kind |-> "return", exc |-> "", msg |-> "", hasValue |-> TRUE, text |-> t, raw |-> <<>>]
\* The call raised exception e with message m; raw is the bytes the message quotes.
Raise(e, m) ==
    [kind |-> "raise", exc |-> e, msg |-> m, hasValue |-> FALSE, text |-> <<>>, raw |-> <<>>]

(***************************************************************************)
(* Functions (tc038dMM.py, 144-148) and the command texts of the model.    *)
(***************************************************************************)
tokR == <<"R">>
tokW == <<"W">>
tokWRITESINGLE == <<"W", "R", "I", "T", "E", "S", "I", "N", "G", "L", "E">>
tokECHO == <<"E", "C", "H", "O">>
tokWW == <<"W", "W">>
tokRF == <<"R", "F">>

\* class Functions(IntEnum)
Functions == (tokR :> 3) @@ (tokWRITESINGLE :> 6) @@ (tokECHO :> 8) @@ (tokW :> 16)

DeviceAddresses == {1, 17}
ByteModes == {2, 4}

\* A number token of a command: its text, what it is meant to be ("dec", "hex",
\* "bad" for text that is no number, "absent" for a missing token) and its value.
Tok(t, f, v) == [text |-> t, form |-> f, value |-> v]
NoToken == Tok(<<>>, "absent", 0)

FunctionTokens == {tokR, tokW, tokWRITESINGLE, tokECHO, tokWW, tokRF, <<"r">>}

AddressTokens == {
    Tok(<<"0", "x", "1", "0", "6">>, "hex", 262),
    Tok(<<"2", "6", "2">>, "dec", 262),
    Tok(<<"0", "x", "F", "F", "F", "F">>, "hex", 65535),
    Tok(<<"6", "5", "5", "3", "6">>, "dec", 65536),
    Tok(<<"-", "1">>, "dec", -1),
    Tok(<<"1", "A">>, "bad", 0) }

ValueTokens == {
    Tok(<<"2", "5", "0">>, "dec", 250),
    Tok(<<"-", "1">>, "dec", -1),
    Tok(<<"1", "2", "3", "4">>, "dec", 1234),
    Tok(<<"3", "2", "7", "6", "8">>, "dec", 32768),
    Tok(<<"1", ".", "5">>, "bad", 0) }

\* The tokens that follow the first value of a command.
MoreValueTokens == {
    Tok(<<"-", "1">>, "dec", -1),
    Tok(<<"1", ".", "5">>, "bad", 0) }

RECURSIVE JoinValues(_)
JoinValues(vs) ==
    IF vs = <<>> THEN <<>> ELSE <<",">> \o Head(vs).text \o JoinValues(Tail(vs))

\* The command text "<FUNCTION>,<ADDRESS>[,<VALUE>...]" of the tokens.
Command(f, a, vs) ==
    IF a.form = "absent" THEN f ELSE f \o <<",">> \o a.text \o JoinValues(vs)

(***************************************************************************)
(* TC038D.xwrite (tc038dMM.py, 171-200).                                   *)
(***************************************************************************)
\* int(address, 16) if "x" in address else int(address)
ParseAddress(text) == IF Contains(text, "x") THEN PyInt(text, 16) ELSE PyInt(text, 10)

\* What building a part of the frame gives: the exception raised, or the bytes.
Built(bytes) == [exc |-> "", bytes |-> bytes]
Failed(e) == [exc |-> e, bytes |-> <<>>]

RECURSIVE EncodeValues(_, _)
\* for element in values: data.extend(int(element).to_bytes(byteMode, "big", signed=True))
EncodeValues(values, bm) ==
    IF values = <<>> THEN Built(<<>>)
    ELSE LET n == PyInt(Head(values), 10)
             b == ToBytes(n.value, bm, TRUE)
             rest == EncodeValues(Tail(values), bm)
         IN  IF ~n.ok THEN Failed("ValueError")
             ELSE IF ~b.ok THEN Failed("OverflowError")
             ELSE IF rest.exc # "" THEN rest
             ELSE Built(b.bytes \o rest.bytes)

\* WBody that counts values instead of 2-byte elements.
WBodyCountsValues(values, bm) ==
    LET elements == Len(values)
        count == ToBytes(elements, 2, FALSE)
        encoded == EncodeValues(values, bm)
    IN  IF ~count.ok THEN Failed("OverflowError")
        ELSE IF encoded.exc # "" THEN encoded
        ELSE Built(count.bytes \o <<elements * 2>> \o encoded.bytes)

\* function == Functions.W: element count, byte count, the values
WBody(values, bm) ==
    LET elements == (Len(values) * bm) \div 2
        count == ToBytes(elements, 2, FALSE)
        encoded == EncodeValues(values, bm)
    IN  IF ~count.ok THEN Failed("OverflowError")
        ELSE IF encoded.exc # "" THEN encoded
        ELSE Built(count.bytes \o <<elements * 2>> \o encoded.bytes)

\* RBody whose default is one element whatever the byte mode.
RBodyDefaultOne(values, bm) ==
    LET n == IF values # <<>> THEN PyInt(values[1], 10) ELSE [ok |-> TRUE, value |-> 1]
        count == IF values # <<>> THEN (n.value * bm) \div 2 ELSE 1
        b == ToBytes(count, 2, FALSE)
    IN  IF ~n.ok THEN Failed("ValueError")
        ELSE IF ~b.ok THEN Failed("OverflowError")
        ELSE Built(b.bytes)

\* function == Functions.R: the number of elements to read
RBody(values, bm) ==
    LET n == IF values # <<>> THEN PyInt(values[1], 10) ELSE [ok |-> TRUE, value |-> 1]
        count == IF values # <<>> THEN (n.value * bm) \div 2 ELSE bm \div 2
        b == ToBytes(count, 2, FALSE)
    IN  IF ~n.ok THEN Failed("ValueError")
        ELSE IF ~b.ok THEN Failed("OverflowError")
        ELSE Built(b.bytes)

\* EchoBody that leaves the register address of the command in the frame.
EchoBodyKeepsAddress(data, values) ==
    LET n == IF values # <<>> THEN PyInt(values[1], 10) ELSE [ok |-> TRUE, value |-> 0]
        b == ToBytes(n.value, 2, FALSE)
    IN  IF values = <<>> THEN Built(data)
        ELSE IF ~n.ok THEN Failed("ValueError")
        ELSE IF ~b.ok THEN Failed("OverflowError")
        ELSE Built(data \o b.bytes)

\* function == Functions.ECHO: data[-2:] = [0, 0], then the test data
EchoBody(data, values) ==
    LET zeroed == SubSeq(data, 1, Len(data) - 2) \o <<0, 0>>
        n == IF values # <<>> THEN PyInt(values[1], 10) ELSE [ok |-> TRUE, value |-> 0]
        b == ToBytes(n.value, 2, FALSE)
    IN  IF values = <<>> THEN Built(zeroed)
        ELSE IF ~n.ok THEN Failed("ValueError")
        ELSE IF ~b.ok THEN Failed("OverflowError")
        ELSE Built(zeroed \o b.bytes)

\* The list data of xwrite before the checksum is appended (180-198).
XwriteData(addr, bm, command) ==
    LET parts == Split(command, ",")
    IN  IF Len(parts) < 2 THEN Failed("ValueError")
        ELSE LET function == parts[1]
                 values == SubSeq(parts, 3, Len(parts))
                 a == ParseAddress(parts[2])
                 reg == ToBytes(a.value, 2, FALSE)
                 data == <<addr, Functions[function]>> \o reg.bytes
             IN  IF function \notin DOMAIN Functions THEN Failed("KeyError")
                 ELSE IF ~a.ok THEN Failed("ValueError")
                 ELSE IF ~reg.ok THEN Failed("OverflowError")
                 ELSE IF Functions[function] = 16
                 THEN LET body == WBody(values, bm)
                      IN  IF body.exc # "" THEN body ELSE Built(data \o body.bytes)
                 ELSE IF Functions[function] = 3
                 THEN LET body == RBody(values, bm)
                      IN  IF body.exc # "" THEN body ELSE Built(data \o body.bytes)
                 ELSE IF Functions[function] = 8
                 THEN EchoBody(data, values)
                 ELSE Built(data)

\* AppendCrc with the checksum high byte first.
AppendCrcHighFirst(data) == data \o <<CRC16(data)[2], CRC16(data)[1]>>

\* data += CRC16(data)
AppendCrc(data) == data \o CRC16(data)

\* bytes(data): ValueError unless every item is in range(0, 256)
IsBytes(data) == \A i \in 1..Len(data) : data[i] \in 0..255

\* The frame xwrite hands to write_bytes, or the exception it raises before.
XwriteFrame(addr, bm, command) ==
    LET d == XwriteData(addr, bm, command)
    IN  IF d.exc # "" THEN d
        ELSE IF ~IsBytes(AppendCrc(d.bytes)) THEN Failed("ValueError")
        ELSE Built(AppendCrc(d.bytes))

\* No call is under way: the caller is between two calls.
Idle == last.op \in {"init", "idle"}

\* What a call leaves in last: the call, its input and its outcome.
Called(op, f, a, vs, outcome, handler) ==
    [op |-> op, function |-> f, addressTok |-> a, valueToks |-> vs,
     command |-> Command(f, a, vs), outcome |-> outcome, handler |-> handler]

\* xwrite that hands the header to the transport before it parses the rest.
xwriteHeaderFirst(f, a, vs) ==
    /\ Idle
    /\ tx = <<>>
    /\ rx = <<>>
    /\ \E frame \in {XwriteFrame(address, byteMode, Command(f, a, vs))} :
          /\ tx' = IF frame.exc = "" THEN <<frame.bytes>> ELSE <<<<address>>>>
          /\ last' = Called("xwrite", f, a, vs,
                            IF frame.exc = "" THEN ReturnNone ELSE Raise(frame.exc, ""),
                            FALSE)
    /\ UNCHANGED <<address, byteMode, buffer, rx>>

\* xwrite(command), called when no exchange is under way: the frame goes to
\* write_bytes unless building it raised.
xwrite(f, a, vs) ==
    /\ Idle
    /\ tx = <<>>
    /\ rx = <<>>
    /\ \E frame \in {XwriteFrame(address, byteMode, Command(f, a, vs))} :
          /\ tx' = IF frame.exc = "" THEN <<frame.bytes>> ELSE tx
          /\ last' = Called("xwrite", f, a, vs,
                            IF frame.exc = "" THEN ReturnNone ELSE Raise(frame.exc, ""),
                            FALSE)
    /\ UNCHANGED <<address, byteMode, buffer, rx>>

\* The call has returned or raised and the caller goes on.
Proceed ==
    /\ last.op \in {"xwrite", "xread", "write", "read", "check_set_errors", "ping", "construct"}
    /\ last' = [op |-> "idle"]
    /\ UNCHANGED <<address, byteMode, buffer, tx, rx>>

(***************************************************************************)
(* ModbusMixin.write and ModbusMixin.read (tc038dMM.py, 103-128).          *)
(***************************************************************************)
\* An entry of self.methods: a bound method of the minimalmodbus instrument,
\* or a plain integer.
Method(name) == [callable |-> TRUE, name |-> name]
NotAMethod(name) == [callable |-> FALSE, name |-> name]

\* self.methods
methods ==
    (tokR :> Method("read_long")) @@
    (tokWRITESINGLE :> Method("write_register")) @@
    (tokECHO :> NotAMethod("0x08")) @@
    (tokW :> Method("write_long")) @@
    (tokWW :> Method("write_registers")) @@
    (tokRF :> Method("read_float"))

\* What write does before it calls the handler (115-124): the exception it
\* raises there, or none.
WriteRejects(command) ==
    LET parts == Split(command, ",")
    IN  IF Len(parts) < 2 THEN "ValueError"
        ELSE LET function == parts[1]
                 values == SubSeq(parts, 3, Len(parts))
             IN  IF function \notin DOMAIN methods THEN "KeyError"
                 ELSE IF ~ParseAddress(parts[2]).ok THEN "ValueError"
                 ELSE IF \E i \in 1..Len(values) : ~PyInt(values[i], 10).ok
                 THEN "ValueError"
                 ELSE IF ~methods[function].callable THEN "TypeError"
                 ELSE ""

\* A value of _buffer: None or an integer.
BufferNone == [set |-> TRUE, none |-> TRUE, int |-> 0]
BufferInt(n) == [set |-> TRUE, none |-> FALSE, int |-> n]

\* What a handler of minimalmodbus may do once it is called: return a value or
\* raise. The library is not part of this repository; its traffic on the
\* transport is not modelled.
HandlerOutcomes ==
    {[raised |-> FALSE, rv |-> BufferNone],
     [raised |-> FALSE, rv |-> BufferInt(1000)],
     [raised |-> TRUE, rv |-> BufferNone]}

\* write(command) that clears _buffer before it calls the handler.
writeClearsBuffer(f, a, vs) ==
    /\ Idle
    /\ tx = <<>>
    /\ rx = <<>>
    /\ \E rejected \in {WriteRejects(Command(f, a, vs))} :
          \/ /\ rejected # ""
             /\ last' = Called("write", f, a, vs, Raise(rejected, ""), FALSE)
             /\ UNCHANGED buffer
          \/ /\ rejected = ""
             /\ Len(vs) > 1
             /\ last' = Called("write", f, a, vs, Raise("ValueError", ""), FALSE)
             /\ UNCHANGED buffer
          \/ /\ rejected = ""
             /\ \E out \in HandlerOutcomes :
                   IF out.raised
                   THEN /\ last' = Called("write", f, a, vs, Raise("ModbusException", ""), TRUE)
                        /\ buffer' = BufferNone
                   ELSE /\ last' = Called("write", f, a, vs, ReturnNone, TRUE)
                        /\ buffer' = out.rv
    /\ UNCHANGED <<address, byteMode, tx, rx>>

\* write(command)
write(f, a, vs) ==
    /\ Idle
    /\ tx = <<>>
    /\ rx = <<>>
    /\ \E rejected \in {WriteRejects(Command(f, a, vs))} :
          \/ /\ rejected # ""
             /\ last' = Called("write", f, a, vs, Raise(rejected, ""), FALSE)
             /\ UNCHANGED buffer
          \/ /\ rejected = ""
             /\ Len(vs) > 1
             \* _twos_complement(int(value)) of the library raises
             /\ last' = Called("write", f, a, vs, Raise("ValueError", ""), FALSE)
             /\ UNCHANGED buffer
          \/ /\ rejected = ""
             /\ \E out \in HandlerOutcomes :
                   IF out.raised
                   THEN /\ last' = Called("write", f, a, vs, Raise("ModbusException", ""), TRUE)
                        /\ UNCHANGED buffer
                   ELSE /\ last' = Called("write", f, a, vs, ReturnNone, TRUE)
                        /\ buffer' = out.rv
    /\ UNCHANGED <<address, byteMode, tx, rx>>

\* read(): str(self._buffer)
ReadOutcome(buf) ==
    IF ~buf.set THEN Raise("AttributeError", "")
    ELSE IF buf.none THEN ReturnText(<<"N", "o", "n", "e">>)
    ELSE ReturnText(PyStr(buf.int))

read ==
    /\ Idle
    /\ last' = [op |-> "read", outcome |-> ReadOutcome(buffer)]
    /\ UNCHANGED <<address, byteMode, buffer, tx, rx>>

\* check_set_errors() (236-247): read(); what read raises is logged and
\* raised again, otherwise the empty list is returned.
check_set_errors ==
    /\ Idle
    /\ \E answer \in {ReadOutcome(buffer)} :
          last' = [op |-> "check_set_errors",
                   outcome |-> IF answer.kind = "raise" THEN answer ELSE ReturnText(<<>>)]
    /\ UNCHANGED <<address, byteMode, buffer, tx, rx>>

(***************************************************************************)
(* TC038D.ping (tc038dMM.py, 249-251): ask is write(command) followed by   *)
(* read(), both of ModbusMixin.                                            *)
(***************************************************************************)
\* f"ECHO,0,{test_data}"
PingCommand(test_data) == tokECHO \o <<",", "0", ",">> \o PyStr(test_data)

\* assert int(answer) == test_data
PingAssert(answer, test_data) ==
    IF answer.kind = "raise" THEN answer
    ELSE LET n == PyInt(answer.text, 10)
         IN  IF ~n.ok THEN Raise("ValueError", "")
             ELSE IF n.value = test_data THEN ReturnNone
             ELSE Raise("AssertionError", "")

PingData == {0, 1234, 65535}

\* ping(test_data)
ping(test_data) ==
    /\ Idle
    /\ tx = <<>>
    /\ rx = <<>>
    /\ \E rejected \in {WriteRejects(PingCommand(test_data))} :
          IF rejected # ""
          THEN /\ last' = [op |-> "ping", testData |-> test_data,
                           outcome |-> Raise(rejected, ""), handler |-> FALSE]
               /\ UNCHANGED buffer
          ELSE \E out \in HandlerOutcomes :
                  IF out.raised
                  THEN /\ last' = [op |-> "ping", testData |-> test_data,
                                   outcome |-> Raise("ModbusException", ""), handler |-> TRUE]
                       /\ UNCHANGED buffer
                  ELSE /\ last' = [op |-> "ping", testData |-> test_data,
                                   outcome |-> PingAssert(ReadOutcome(out.rv), test_data),
                                   handler |-> TRUE]
                       /\ buffer' = out.rv
    /\ UNCHANGED <<address, byteMode, tx, rx>>

(***************************************************************************)
(* The device: it takes a request frame off the line and answers with a    *)
(* response frame, well-formed or with one bit changed on the way.         *)
(***************************************************************************)
\* A frame of the device: the body and the Modbus checksum of the body.
DeviceFrame(body) == body \o ModbusCRC(body)

PayloadSample == {0, 3, 232, 128, 255}
PayloadPairs == {<<0, 0>>, <<3, 232>>, <<255, 255>>, <<128, 0>>}
ReadPayloads ==
    SeqsUpTo(PayloadSample, 2) \cup {p \o q : p \in PayloadPairs, q \in PayloadPairs}

\* The bodies of the responses of the model, each with its kind: the header,
\* where the payload starts and how long it is.
ReadBodies ==
    {[kind |-> "read", body |-> <<d, 3, Len(p)>> \o p, payloadAt |-> 4, payloadLen |-> Len(p)] :
        d \in DeviceAddresses, p \in ReadPayloads}
WriteBodies ==
    {[kind |-> "write", body |-> <<d, 16>> \o s \o <<0, n>>, payloadAt |-> 3, payloadLen |-> 4] :
        d \in DeviceAddresses, s \in {<<1, 6>>, <<0, 0>>}, n \in {2, 4}}
EchoBodies ==
    {[kind |-> "echo", body |-> <<d, 8, 0, 0>> \o v, payloadAt |-> 3, payloadLen |-> 4] :
        d \in DeviceAddresses, v \in {<<0, 0>>, <<4, 210>>, <<255, 255>>}}
\* Error responses (function code with bit 0x80) and responses with a function
\* code the decoder does not know.
ErrorBodies ==
    {[kind |-> "error", body |-> <<d, f, e>>, payloadAt |-> 3, payloadLen |-> 1] :
        d \in DeviceAddresses, f \in {131, 144, 136, 134, 6, 1}, e \in {1, 2, 3, 4, 5}}
    \cup
    \* the answer to WRITESINGLE: the request comes back, register and value
    {[kind |-> "error", body |-> <<d, 6>> \o s \o <<0, 5>>, payloadAt |-> 3, payloadLen |-> 4] :
        d \in DeviceAddresses, s \in {<<1, 6>>, <<2, 6>>}}
ResponseBodies == ReadBodies \cup WriteBodies \cup EchoBodies \cup ErrorBodies

\* One bit of byte i of a frame changed; w is the weight of the bit.
FlipBit(frame, i, w) == [frame EXCEPT ![i] = ToggleBit(frame[i], w)]
BitWeights == {1, 2, 4, 8, 16, 32, 64, 128}

\* The device takes the request.
DeviceTakes ==
    /\ Idle
    /\ tx # <<>>
    /\ tx' = <<>>
    /\ last' = [op |-> "taken", request |-> Head(tx)]
    /\ UNCHANGED <<address, byteMode, buffer, rx>>

\* The device answers: the well-formed frame arrives.
DeviceSends(r) ==
    /\ last.op = "taken"
    /\ \E good \in {DeviceFrame(r.body)} :
          /\ rx' = good
          /\ last' = [op |-> "sent", kind |-> r.kind, good |-> good, frame |-> good,
                      flipped |-> 0, payloadAt |-> r.payloadAt, payloadLen |-> r.payloadLen]
    /\ UNCHANGED <<address, byteMode, buffer, tx>>

\* The device answers and bit w of byte i changes on the way.
DeviceSendsFlipped(r, i, w) ==
    /\ last.op = "taken"
    /\ \E good \in {DeviceFrame(r.body)} :
          /\ i \in 1..Len(good)
          /\ rx' = FlipBit(good, i, w)
          /\ last' = [op |-> "sent", kind |-> r.kind, good |-> good, frame |-> FlipBit(good, i, w),
                      flipped |-> i, payloadAt |-> r.payloadAt, payloadLen |-> r.payloadLen]
    /\ UNCHANGED <<address, byteMode, buffer, tx>>

(***************************************************************************)
(* TC038D.xread (tc038dMM.py, 202-234).                                    *)
(***************************************************************************)
Take(bytes, n) == SubSeq(bytes, 1, n)
Drop(bytes, n) == SubSeq(bytes, n + 1, Len(bytes))

\* What xread gives: the outcome and the bytes left unread.
Decoded(outcome, rest) == [outcome |-> outcome, rest |-> rest]
\* read_bytes(count) with fewer than count bytes to come: the transport gives
\* up with its timeout error after taking what there was.
TimedOut == Decoded(Raise("TimeoutError", ""), <<>>)

\* read[-2:] != bytes(CRC16(...))
CrcMismatch(checksum, data) == checksum # CRC16(data)

\* got[1] == Functions.R (206-213); data is the local variable read
XreadR(got, bytes) ==
    IF Len(bytes) < 1 THEN TimedOut
    ELSE LET length == Take(bytes, 1)
             more == Drop(bytes, 1)
             data == Take(more, length[1] + 2)
             payload == Take(data, Len(data) - 2)
         IN  IF Len(more) < length[1] + 2 THEN TimedOut
             ELSE IF CrcMismatch(Drop(data, Len(data) - 2), got \o length \o payload)
             THEN Decoded(Raise("ConnectionError", "Response CRC does not match."),
                          Drop(more, length[1] + 2))
             ELSE Decoded(ReturnText(PyStr(FromBytes(payload, TRUE))),
                          Drop(more, length[1] + 2))

\* XreadW that takes the checksum over all the bytes read, its own included.
XreadWCrcOverAll(got, bytes) ==
    IF Len(bytes) < 6 THEN TimedOut
    ELSE LET all == got \o Take(bytes, 6)
         IN  IF CrcMismatch(Drop(all, Len(all) - 2), all)
             THEN Decoded(Raise("ConnectionError", "Response CRC does not match."),
                          Drop(bytes, 6))
             ELSE Decoded(ReturnNone, Drop(bytes, 6))

\* got[1] == Functions.W (214-218)
XreadW(got, bytes) ==
    IF Len(bytes) < 6 THEN TimedOut
    ELSE LET all == got \o Take(bytes, 6)
         IN  IF CrcMismatch(Drop(all, Len(all) - 2), Take(all, Len(all) - 2))
             THEN Decoded(Raise("ConnectionError", "Response CRC does not match."),
                          Drop(bytes, 6))
             ELSE Decoded(ReturnNone, Drop(bytes, 6))

\* XreadEcho that reads the echoed bytes as a signed number.
XreadEchoSigned(got, bytes) ==
    IF Len(bytes) < 6 THEN TimedOut
    ELSE LET all == got \o Take(bytes, 6)
         IN  IF CrcMismatch(Drop(all, Len(all) - 2), Take(all, Len(all) - 2))
             THEN Decoded(Raise("ConnectionError", "Response CRC does not match."),
                          Drop(bytes, 6))
             ELSE Decoded(ReturnText(PyStr(FromBytes(SubSeq(all, Len(all) - 3, Len(all) - 2),
                                                     TRUE))),
                          Drop(bytes, 6))

\* XreadEcho that returns the echoed value without comparing the checksum.
XreadEchoUnchecked(got, bytes) ==
    IF Len(bytes) < 6 THEN TimedOut
    ELSE LET all == got \o Take(bytes, 6)
         IN  Decoded(ReturnText(PyStr(FromBytes(SubSeq(all, Len(all) - 3, Len(all) - 2),
                                                FALSE))),
                     Drop(bytes, 6))

\* got[1] == Functions.ECHO (219-224)
XreadEcho(got, bytes) ==
    IF Len(bytes) < 6 THEN TimedOut
    ELSE LET all == got \o Take(bytes, 6)
         IN  IF CrcMismatch(Drop(all, Len(all) - 2), Take(all, Len(all) - 2))
             THEN Decoded(Raise("ConnectionError", "Response CRC does not match."),
                          Drop(bytes, 6))
             ELSE Decoded(ReturnText(PyStr(FromBytes(SubSeq(all, Len(all) - 3, Len(all) - 2),
                                                     FALSE))),
                          Drop(bytes, 6))

\* errors without the entry of code 0x04.
errorsWithoutOperation ==
    (2 :> "Wrong start address.") @@
    (3 :> "Variable data error.")

\* errors
errors ==
    (2 :> "Wrong start address.") @@
    (3 :> "Variable data error.") @@
    (4 :> "Operation error.")

\* XreadError that reads the error code and one byte of the checksum only.
XreadErrorShort(got, bytes) ==
    IF Len(bytes) < 2 THEN TimedOut
    ELSE LET end == Take(bytes, 2)
         IN  IF end[1] \in DOMAIN errors
             THEN Decoded(Raise("ValueError", errors[end[1]]), Drop(bytes, 2))
             ELSE Decoded([Raise("ConnectionError", "Unknown read error. Received: ")
                              EXCEPT !.raw = got \o end],
                          Drop(bytes, 2))

\* else: an error occurred (225-234)
XreadError(got, bytes) ==
    IF Len(bytes) < 3 THEN TimedOut
    ELSE LET end == Take(bytes, 3)
         IN  IF end[1] \in DOMAIN errors
             THEN Decoded(Raise("ValueError", errors[end[1]]), Drop(bytes, 3))
             ELSE Decoded([Raise("ConnectionError", "Unknown read error. Received: ")
                              EXCEPT !.raw = got \o end],
                          Drop(bytes, 3))

\* xread() that returns nothing for a function code it does not know when
\* the code has bit 0x80 clear.
XreadOutcomeFallsThrough(bytes) ==
    IF Len(bytes) < 2 THEN TimedOut
    ELSE LET got == Take(bytes, 2)
             more == Drop(bytes, 2)
         IN  IF got[2] = Functions[tokR] THEN XreadR(got, more)
             ELSE IF got[2] = Functions[tokW] THEN XreadW(got, more)
             ELSE IF got[2] = Functions[tokECHO] THEN XreadEcho(got, more)
             ELSE IF got[2] < 128 THEN Decoded(ReturnNone, more)
             ELSE XreadError(got, more)

\* xread() on the bytes the transport has to give.
XreadOutcome(bytes) ==
    IF Len(bytes) < 2 THEN TimedOut
    ELSE LET got == Take(bytes, 2)
             more == Drop(bytes, 2)
         IN  IF got[2] = Functions[tokR] THEN XreadR(got, more)
             ELSE IF got[2] = Functions[tokW] THEN XreadW(got, more)
             ELSE IF got[2] = Functions[tokECHO] THEN XreadEcho(got, more)
             ELSE XreadError(got, more)

\* xread() that writes the bytes it has read back to the transport when it
\* raises, to ask for the response again.
xreadResends ==
    /\ last.op \in {"sent", "idle"}
    /\ rx # <<>>
    /\ \E d \in {XreadOutcome(rx)} :
          /\ rx' = d.rest
          /\ tx' = IF d.outcome.kind = "raise" THEN tx \o <<rx>> ELSE tx
          /\ last' = [op |-> "xread", outcome |-> d.outcome, input |-> rx,
                      sent |-> IF last.op = "sent" THEN last ELSE [op |-> "none"]]
    /\ UNCHANGED <<address, byteMode, buffer>>

\* xread() that raises when the first byte of the response is not the address
\* of the instrument.
xreadChecksAddress ==
    /\ last.op \in {"sent", "idle"}
    /\ rx # <<>>
    /\ \E d \in {XreadOutcome(rx)} :
          /\ rx' = d.rest
          /\ last' = [op |-> "xread",
                      outcome |-> IF rx[1] # address THEN Raise("ConnectionError", "")
                                  ELSE d.outcome,
                      input |-> rx,
                      sent |-> IF last.op = "sent" THEN last ELSE [op |-> "none"]]
    /\ UNCHANGED <<address, byteMode, buffer, tx>>

\* xread(), called once bytes have arrived.
xread ==
    /\ last.op \in {"sent", "idle"}
    /\ rx # <<>>
    /\ \E d \in {XreadOutcome(rx)} :
          /\ rx' = d.rest
          /\ last' = [op |-> "xread", outcome |-> d.outcome, input |-> rx,
                      sent |-> IF last.op = "sent" THEN last ELSE [op |-> "none"]]
    /\ UNCHANGED <<address, byteMode, buffer, tx>>

\* The answers of the device to a request frame: a write request is
\* acknowledged with its first six bytes and an echo request with test data
\* comes back as it is, each under its own checksum.
AnswersTo(request) ==
    IF request[2] = Functions[tokW]
    THEN {[kind |-> "write", body |-> Take(request, 6), payloadAt |-> 3, payloadLen |-> 4]}
    ELSE IF request[2] = Functions[tokECHO] /\ Len(request) = 8
    THEN {[kind |-> "echo", body |-> Take(request, 6), payloadAt |-> 3, payloadLen |-> 4]}
    ELSE {}

\* The device takes the frame xwrite has just written and answers it; the
\* call that wrote the request is kept with the answer.
DeviceAnswers ==
    /\ last.op = "xwrite"
    /\ last.outcome.kind = "return"
    /\ tx # <<>>
    /\ rx = <<>>
    /\ \E r \in AnswersTo(Head(tx)) : \E good \in {DeviceFrame(r.body)} :
          /\ tx' = <<>>
          /\ rx' = good
          /\ last' = [op |-> "sent", kind |-> r.kind, good |-> good, frame |-> good,
                      flipped |-> 0, payloadAt |-> r.payloadAt, payloadLen |-> r.payloadLen,
                      call |-> last]
    /\ UNCHANGED <<address, byteMode, buffer>>

\* The tokens a call is made with: a function, an address or none, values.
ValueLists ==
    {<<>>} \cup {<<v>> \o more : v \in ValueTokens, more \in SeqsUpTo(MoreValueTokens, MaxValues - 1)}

\* The longest response frame of the model: 3 header bytes, 4 payload bytes,
\* 2 checksum bytes.
MaxFrame == 9

Init ==
    /\ address \in DeviceAddresses
    /\ byteMode \in ByteModes
    /\ buffer = NoBuffer
    /\ tx = <<>>
    /\ rx = <<>>
    /\ last = [op |-> "init"]
    /\ crcData = <<>>
    /\ crcPos = 1
    /\ crcBit = 0
    /\ CRC = CrcInit
    /\ crcPc = "octet"
    /\ crcRet = <<>>
    /\ GpibIdle

Next ==
    \/ \E f \in FunctionTokens, a \in AddressTokens, vs \in ValueLists :
          xwrite(f, a, vs) /\ UNCHANGED <<crcVars, gpibVars>>
    \/ \E f \in FunctionTokens : xwrite(f, NoToken, <<>>) /\ UNCHANGED <<crcVars, gpibVars>>
    \/ \E f \in FunctionTokens, a \in AddressTokens, vs \in ValueLists :
          write(f, a, vs) /\ UNCHANGED <<crcVars, gpibVars>>
    \/ \E f \in FunctionTokens : write(f, NoToken, <<>>) /\ UNCHANGED <<crcVars, gpibVars>>
    \/ read /\ UNCHANGED <<crcVars, gpibVars>>
    \/ check_set_errors /\ UNCHANGED <<crcVars, gpibVars>>
    \/ DeviceTakes /\ UNCHANGED <<crcVars, gpibVars>>
    \/ Proceed /\ UNCHANGED <<crcVars, gpibVars>>

Spec == Init /\ [][Next]_vars

(***************************************************************************)
(* The decoder alone: a TC038D as constructed (address 1, byteMode 4) has  *)
(* sent "R,0x106", the device has taken the request and answers with any   *)
(* response of the model, intact or with one bit changed.                  *)
(***************************************************************************)
InitDec ==
    /\ address = 1
    /\ byteMode = 4
    /\ buffer = NoBuffer
    /\ tx = <<>>
    /\ rx = <<>>
    /\ last = [op |-> "taken",
               request |-> XwriteFrame(1, 4, Command(tokR, Tok(<<"0", "x", "1", "0", "6">>, "hex", 262), <<>>)).bytes]
    /\ crcData = <<>>
    /\ crcPos = 1
    /\ crcBit = 0
    /\ CRC = CrcInit
    /\ crcPc = "octet"
    /\ crcRet = <<>>
    /\ GpibIdle

NextDec ==
    \/ \E r \in ResponseBodies : DeviceSends(r) /\ UNCHANGED <<crcVars, gpibVars>>
    \/ \E r \in ResponseBodies, i \in 1..MaxFrame, w \in BitWeights :
          DeviceSendsFlipped(r, i, w) /\ UNCHANGED <<crcVars, gpibVars>>
    \/ xread /\ UNCHANGED <<crcVars, gpibVars>>
    \/ Proceed /\ UNCHANGED <<crcVars, gpibVars>>

SpecDec == InitDec /\ [][NextDec]_vars

(***************************************************************************)
(* The constructors: TC038D.__init__ (tc038dMM.py, 165-169) and            *)
(* YokogawaAQ6370.__init__ (yokogawaAQ6370.py, 49-65), called with keyword *)
(* arguments. A call binds its arguments to the parameters of the          *)
(* signature first: a parameter without default that gets no argument is a *)
(* TypeError.                                                              *)
(***************************************************************************)
\* def __init__(self, adapter, name="TC038D", address=1, timeout=1000, **kwargs)
SignatureTC038D ==
    [required |-> {"adapter"}, optional |-> {"name", "address", "timeout"}, varkw |-> TRUE,
     name |-> "TC038D", passesName |-> TRUE]
\* def __init__(self, resourceName, baud_rate=115200, port=10001, host="", **kwargs);
\* the name given to super().__init__ is "YokogawaAQ6370", kwargs are not passed on
SignatureYokogawaAQ6370 ==
    [required |-> {"resourceName"}, optional |-> {"baud_rate", "port", "host"}, varkw |-> TRUE,
     name |-> "YokogawaAQ6370", passesName |-> FALSE]
Signatures == {SignatureTC038D, SignatureYokogawaAQ6370}

\* The keyword arguments of a call: adapter=<adapter object> or not, name=N or not.
NoName == ""
NameArguments == {NoName, "Name_Test", "TC"}
Keywords(withAdapter, name) ==
    (IF withAdapter THEN {"adapter"} ELSE {}) \cup (IF name # NoName THEN {"name"} ELSE {})

\* Binding the keywords to the parameters: the exception, or none.
BindRaises(sig, keywords) ==
    IF sig.required \ keywords # {} THEN "TypeError"
    ELSE IF ~sig.varkw /\ keywords \ (sig.required \cup sig.optional) # {} THEN "TypeError"
    ELSE ""

\* cls(adapter=..., name=...): the call and what became of it
Construct(sig, withAdapter, name) ==
    /\ Idle
    /\ \E raises \in {BindRaises(sig, Keywords(withAdapter, name))} :
          last' = [op |-> "construct", cls |-> sig.name,
                   adapterGiven |-> withAdapter, nameArg |-> name,
                   outcome |-> IF raises # "" THEN Raise(raises, "") ELSE ReturnNone,
                   name |-> IF raises # "" THEN NoName
                            ELSE IF sig.passesName /\ name # NoName THEN name
                            ELSE sig.name]
    /\ UNCHANGED <<address, byteMode, buffer, tx, rx>>

(***************************************************************************)
(* The round trip: xwrite sends a write or echo request, the device        *)
(* answers it and xread decodes the answer; ping asks for an echo. The     *)
(* device of this specification answers every echo request with the        *)
(* well-formed echo of its test data.                                      *)
(***************************************************************************)
TripFunctions == {tokW, tokECHO}
TripAddressTokens == {
    Tok(<<"0">>, "dec", 0),
    Tok(<<"0", "x", "1", "0", "6">>, "hex", 262),
    Tok(<<"0", "x", "F", "F", "F", "F">>, "hex", 65535) }
TripValueTokens == {
    Tok(<<"0">>, "dec", 0),
    Tok(<<"1">>, "dec", 1),
    Tok(<<"2", "5", "0">>, "dec", 250),
    Tok(<<"1", "2", "3", "4">>, "dec", 1234),
    Tok(<<"3", "2", "7", "6", "7">>, "dec", 32767),
    Tok(<<"3", "2", "7", "6", "8">>, "dec", 32768),
    Tok(<<"6", "5", "5", "3", "5">>, "dec", 65535),
    Tok(<<"6", "5", "5", "3", "6">>, "dec", 65536),
    Tok(<<"-", "1">>, "dec", -1) }
TripValueLists ==
    {<<>>} \cup {<<v>> \o more : v \in TripValueTokens,
                                 more \in SeqsUpTo({Tok(<<"-", "1">>, "dec", -1)}, MaxValues - 1)}

NextTrip ==
    \/ \E f \in TripFunctions, a \in TripAddressTokens, vs \in TripValueLists :
          xwrite(f, a, vs) /\ UNCHANGED <<crcVars, gpibVars>>
    \/ \E test_data \in PingData : ping(test_data) /\ UNCHANGED <<crcVars, gpibVars>>
    \/ \E sig \in Signatures, withAdapter \in BOOLEAN, name \in NameArguments :
          Construct(sig, withAdapter, name) /\ UNCHANGED <<crcVars, gpibVars>>
    \/ DeviceAnswers /\ UNCHANGED <<crcVars, gpibVars>>
    \/ xread /\ UNCHANGED <<crcVars, gpibVars>>
    \/ Proceed /\ UNCHANGED <<crcVars, gpibVars>>

SpecTrip == Init /\ [][NextTrip]_vars

(***************************************************************************)
(* One exchange: xwrite sends a read, write or echo request, the device    *)
(* replies and xread decodes the reply. The device of this specification   *)
(* replies with the answer to the request, with the register just written, *)
(* with a refusal, or with a response that belongs to another request or   *)
(* another device; the answer may come with one bit changed.               *)
(***************************************************************************)
ExchangeFunctions == {tokW, tokECHO}
ExchangeAddressTokens == {Tok(<<"0", "x", "1", "0", "6">>, "hex", 262)}
ExchangeValueTokens == {
    Tok(<<"2", "5", "0">>, "dec", 250),
    Tok(<<"-", "1">>, "dec", -1),
    Tok(<<"3", "2", "7", "6", "7">>, "dec", 32767),
    Tok(<<"-", "3", "2", "7", "6", "8">>, "dec", -32768),
    Tok(<<"3", "2", "7", "6", "8">>, "dec", 32768),
    Tok(<<"-", "3", "2", "7", "6", "9">>, "dec", -32769),
    Tok(<<"2", "1", "4", "7", "4", "8", "3", "6", "4", "7">>, "dec", 2147483647),
    Tok(<<"-", "2", "1", "4", "7", "4", "8", "3", "6", "4", "7">>, "dec", -2147483647) }
ExchangeValueLists ==
    {<<>>} \cup {<<v>> \o more : v \in ExchangeValueTokens,
                                 more \in SeqsUpTo({Tok(<<"-", "1">>, "dec", -1)}, MaxValues - 1)}

\* The device reports the register a write request has just set: the bytes
\* of the first value of the request as the payload of a read response.
ReadBack(request, bm) ==
    IF request[2] = Functions[tokW] /\ Len(request) >= 7 + bm + 2
    THEN {[kind |-> "read", body |-> <<request[1], 3, bm>> \o SubSeq(request, 8, 7 + bm),
           payloadAt |-> 4, payloadLen |-> bm]}
    ELSE {}

\* The device refuses the request: function code + 0x80 and an error code.
Refusals(request) ==
    {[kind |-> "error", body |-> <<request[1], request[2] + 128, e>>,
      payloadAt |-> 3, payloadLen |-> 1] : e \in {2, 4}}

\* Responses that do not depend on the request.
ForeignBodies ==
    {r \in ResponseBodies :
        r.body \in {d \o b : d \in {<<1>>, <<17>>},
                              b \in {<<3, 2, 3, 232>>, <<3, 4, 255, 255, 255, 255>>,
                                     <<16, 1, 6, 0, 2>>, <<8, 0, 0, 4, 210>>}}}

RepliesTo(request, bm) ==
    AnswersTo(request) \cup ReadBack(request, bm) \cup Refusals(request) \cup ForeignBodies

\* The reply of the device as it leaves the device and as it arrives.
Reply(r, good, frame, i) ==
    [op |-> "sent", kind |-> r.kind, good |-> good, frame |-> frame,
     flipped |-> i, payloadAt |-> r.payloadAt, payloadLen |-> r.payloadLen,
     call |-> last, request |-> Head(tx)]

\* The device takes the frame xwrite has just written and replies.
DeviceReplies ==
    /\ last.op = "xwrite"
    /\ last.outcome.kind = "return"
    /\ tx # <<>>
    /\ rx = <<>>
    /\ \E r \in RepliesTo(Head(tx), byteMode) : \E good \in {DeviceFrame(r.body)} :
          /\ tx' = <<>>
          /\ rx' = good
          /\ last' = Reply(r, good, good, 0)
    /\ UNCHANGED <<address, byteMode, buffer>>

\* The device replies and bit w of byte i of the reply changes on the way.
DeviceRepliesDamaged(i, w) ==
    /\ last.op = "xwrite"
    /\ last.outcome.kind = "return"
    /\ tx # <<>>
    /\ rx = <<>>
    /\ \E r \in AnswersTo(Head(tx)) \cup ReadBack(Head(tx), byteMode) :
       \E good \in {DeviceFrame(r.body)} :
          /\ i \in 1..Len(good)
          /\ tx' = <<>>
          /\ rx' = FlipBit(good, i, w)
          /\ last' = Reply(r, good, FlipBit(good, i, w), i)
    /\ UNCHANGED <<address, byteMode, buffer>>

\* The numbers of values a read request asks for: none given, or one.
ExchangeCounts == {<<>>, <<Tok(<<"1">>, "dec", 1)>>}

NextExchange ==
    \/ \E f \in ExchangeFunctions, a \in ExchangeAddressTokens, vs \in ExchangeValueLists :
          xwrite(f, a, vs) /\ UNCHANGED <<crcVars, gpibVars>>
    \/ \E a \in ExchangeAddressTokens, vs \in ExchangeCounts :
          xwrite(tokR, a, vs) /\ UNCHANGED <<crcVars, gpibVars>>
    \/ DeviceReplies /\ UNCHANGED <<crcVars, gpibVars>>
    \/ \E i \in 1..MaxFrame, w \in {1, 128} :
          DeviceRepliesDamaged(i, w) /\ UNCHANGED <<crcVars, gpibVars>>
    \/ xread /\ UNCHANGED <<crcVars, gpibVars>>
    \/ Proceed /\ UNCHANGED <<crcVars, gpibVars>>

SpecExchange == Init /\ [][NextExchange]_vars

(***************************************************************************)
(* PrologixAdapter (prologix.py, 62-124). Text is encoded to bytes before  *)
(* it is written to the connection; every connection.write call is one     *)
(* entry of the connection's link, with the adapter that made the call.    *)
(***************************************************************************)
\* str.encode() and bytes.decode() on the characters the adapter uses.
Ascii ==
    ("\n" :> 10) @@ ("\r" :> 13) @@ (" " :> 32) @@ ("*" :> 42) @@
    ("+" :> 43) @@ ("0" :> 48) @@ ("1" :> 49) @@ ("2" :> 50) @@
    ("3" :> 51) @@ ("4" :> 52) @@ ("5" :> 53) @@ ("6" :> 54) @@
    ("7" :> 55) @@ ("8" :> 56) @@ ("9" :> 57) @@ ("?" :> 63) @@
    ("D" :> 68) @@ ("I" :> 73) @@ ("N" :> 78) @@ ("V" :> 86) @@
    ("a" :> 97) @@ ("d" :> 100) @@ ("e" :> 101) @@ ("i" :> 105) @@
    ("o" :> 111) @@ ("q" :> 113) @@ ("r" :> 114) @@ ("s" :> 115) @@
    ("t" :> 116) @@ ("u" :> 117) @@ ("v" :> 118)
Encode(text) == [i \in 1..Len(text) |-> Ascii[text[i]]]
Decode(bytes) == [i \in 1..Len(bytes) |-> CHOOSE c \in DOMAIN Ascii : Ascii[c] = bytes[i]]

\* "++addr %d\n" % self.address
AddressCommand(n) == <<"+", "+", "a", "d", "d", "r", " ">> \o PyStr(n) \o <<"\n">>

auto0 == <<"+", "+", "a", "u", "t", "o", " ", "0">>
eoi1 == <<"+", "+", "e", "o", "i", " ", "1">>
eos2 == <<"+", "+", "e", "o", "s", " ", "2">>
srqQuery == <<"+", "+", "s", "r", "q">>
readQuery == <<"+", "+", "r", "e", "a", "d">>
idnQuery == <<"*", "I", "D", "N", "?">>
verQuery == <<"+", "+", "v", "e", "r">>

\* One call of connection.write by adapter a.
Entry(a, bytes) == [by |-> a, bytes |-> bytes]

\* write(command) that sends the command and no address directive.
WriteEntriesNoAddress(a, addr, command) ==
    <<Entry(a, Encode(command \o <<"\n">>))>>

\* write(command) (87-97): the calls of connection.write it makes, in order.
WriteEntries(a, addr, command) ==
    (IF addr.bound THEN <<Entry(a, Encode(AddressCommand(addr.n)))>> ELSE <<>>)
        \o <<Entry(a, Encode(command \o <<"\n">>))>>

\* set_defaults() (72-78)
set_defaults(a, addr) ==
    WriteEntries(a, addr, auto0) \o WriteEntries(a, addr, eoi1) \o WriteEntries(a, addr, eos2)

\* The adapter and the connection the next constructor call makes.
FreeAdapters == {a \in 1..MaxAdapters : adapters[a].state = "none"}
FreeConnections == {c \in 1..MaxConnections : connections[c].state = "none"}
Lowest(S) == CHOOSE n \in S : \A m \in S : n <= m
Alive(a) == adapters[a].state = "alive"
AtRest == \A a \in 1..MaxAdapters : adapters[a].pc = "idle"

Made(addr, c, from) ==
    [state |-> "alive", address |-> addr, connection |-> c, from |-> from,
     pc |-> "idle", command |-> <<>>]
CallOf(op, a, command, raised) ==
    [op |-> op, adapter |-> a, command |-> command, raised |-> raised]

\* PrologixAdapter(port, address) with the name of a port (66-70): a new
\* connection is opened and set_defaults is called.
InitFromPort(addr) ==
    /\ AtRest
    /\ FreeAdapters # {}
    /\ FreeConnections # {}
    /\ \E a \in {Lowest(FreeAdapters)}, c \in {Lowest(FreeConnections)} :
          /\ adapters' = [adapters EXCEPT ![a] = Made(addr, c, 0)]
          /\ connections' = [connections EXCEPT
                                ![c] = [state |-> "open", link |-> set_defaults(a, addr)]]
          /\ called' = CallOf("port", a, <<>>, FALSE)
    /\ UNCHANGED srq

\* PrologixAdapter(port, address) with the serial.Serial of adapter from
\* (63-65): the connection is taken as it is.
InitFromConnection(from, addr, op) ==
    /\ AtRest
    /\ Alive(from)
    /\ FreeAdapters # {}
    /\ \E a \in {Lowest(FreeAdapters)} :
          /\ adapters' = [adapters EXCEPT ![a] = Made(addr, adapters[from].connection, from)]
          /\ called' = CallOf(op, a, <<>>, FALSE)
    /\ UNCHANGED <<connections, srq>>

\* gpib(address) that has the new adapter set the defaults again.
gpibSetsDefaults(from, n) ==
    /\ AtRest
    /\ Alive(from)
    /\ FreeAdapters # {}
    /\ \E a \in {Lowest(FreeAdapters)}, c \in {adapters[from].connection} :
          /\ adapters' = [adapters EXCEPT ![a] = Made(Bound(n), c, from)]
          /\ connections' = [connections EXCEPT
                                ![c].link = set_defaults(a, Bound(n))]
          /\ called' = CallOf("gpib", a, <<>>, FALSE)
    /\ UNCHANGED srq

\* gpib(address) (107-115)
gpib(from, n) == InitFromConnection(from, Bound(n), "gpib")

\* connection.write on a closed connection raises; nothing is written.
IsOpen(c) == connections[c].state = "open"

\* write(command), all of it (87-97).
adapterWrite(a, command) ==
    /\ AtRest
    /\ Alive(a)
    /\ \E c \in {adapters[a].connection} :
          IF IsOpen(c)
          THEN /\ Len(connections[c].link) < MaxLink
               /\ connections' = [connections EXCEPT
                                     ![c].link = @ \o WriteEntries(a, adapters[a].address, command)]
               /\ called' = CallOf("write", a, command, FALSE)
          ELSE /\ called' = CallOf("write", a, command, TRUE)
               /\ UNCHANGED connections
    /\ UNCHANGED <<adapters, srq>>

\* __del__ (80-85): the adapter object goes and closes its connection when
\* that is open.
adapterDel(a) ==
    /\ AtRest
    /\ Alive(a)
    /\ adapters' = [adapters EXCEPT ![a].state = "deleted"]
    /\ \E c \in {adapters[a].connection} :
          connections' =
              IF IsOpen(c) THEN [connections EXCEPT ![c].state = "closed"]
              ELSE connections
    /\ called' = CallOf("del", a, <<>>, FALSE)
    /\ UNCHANGED srq

\* The GPIB controller takes what has been written to a connection.
ControllerTakes(c) ==
    /\ AtRest
    /\ connections[c].link # <<>>
    /\ connections' = [connections EXCEPT ![c].link = <<>>]
    /\ called' = CallOf("taken", 0, <<>>, FALSE)
    /\ UNCHANGED <<adapters, srq>>

GpibAddresses == {0, 5}
PortAddresses == {None, Bound(5)}
Commands == {idnQuery, verQuery}

CodecAtRest ==
    /\ CodecIdle
    /\ crcData = <<>>
    /\ crcPos = 1
    /\ crcBit = 0
    /\ CRC = CrcInit
    /\ crcPc = "octet"
    /\ crcRet = <<>>

InitGpib == CodecAtRest /\ GpibIdle

NextGpib ==
    \/ \E addr \in PortAddresses : InitFromPort(addr) /\ UNCHANGED <<codecVars, crcVars>>
    \/ \E from \in 1..MaxAdapters :
          InitFromConnection(from, None, "connection") /\ UNCHANGED <<codecVars, crcVars>>
    \/ \E from \in 1..MaxAdapters, n \in GpibAddresses :
          gpib(from, n) /\ UNCHANGED <<codecVars, crcVars>>
    \/ \E a \in 1..MaxAdapters, command \in Commands :
          adapterWrite(a, command) /\ UNCHANGED <<codecVars, crcVars>>
    \/ \E a \in 1..MaxAdapters : adapterDel(a) /\ UNCHANGED <<codecVars, crcVars>>
    \/ \E c \in 1..MaxConnections : ControllerTakes(c) /\ UNCHANGED <<codecVars, crcVars>>

SpecGpib == InitGpib /\ [][NextGpib]_vars

(***************************************************************************)
(* PrologixAdapter.read and wait_for_srq (prologix.py, 99-105, 117-124).   *)
(* ask(command) is write(command) followed by read().                      *)
(***************************************************************************)
RECURSIVE JoinLines(_)
\* b"\n".join(lines)
JoinLines(lines) ==
    IF lines = <<>> THEN <<>>
    ELSE IF Tail(lines) = <<>> THEN Head(lines)
    ELSE Head(lines) \o <<10>> \o JoinLines(Tail(lines))

RECURSIVE Concatenated(_)
Concatenated(lines) ==
    IF lines = <<>> THEN <<>> ELSE Head(lines) \o Concatenated(Tail(lines))
\* read() that puts the lines together with nothing between them.
ReadTextConcatenated(lines) == Decode(Concatenated(lines))

\* read() (99-105): what it returns when readlines() gives lines
ReadText(lines) == Decode(JoinLines(lines))

Whitespace == {" ", "\n", "\r"}
RECURSIVE StripLeft(_)
StripLeft(text) ==
    IF text # <<>> /\ Head(text) \in Whitespace THEN StripLeft(Tail(text)) ELSE text
RECURSIVE StripRight(_)
StripRight(text) ==
    IF text # <<>> /\ text[Len(text)] \in Whitespace
    THEN StripRight(SubSeq(text, 1, Len(text) - 1))
    ELSE text
\* int(text): blanks around the number are dropped
IntOf(text) == PyInt(StripRight(StripLeft(text)), 10)

\* The loop of wait_for_srq with the timeout enforced.
SrqContinueUntilTimeout(answer, elapsed, timeout) == answer # 1 /\ elapsed < timeout

\* while int(self.ask("++srq")) != 1 (123)
SrqContinue(answer, elapsed, timeout) == answer # 1

\* What readlines() may give after "++srq" and "++read": nothing, a line
\* with a number, two lines.
SrqLines == {
    <<>>,
    <<Encode(<<"0", "\r", "\n">>)>>,
    <<Encode(<<"1", "\r", "\n">>)>>,
    <<Encode(<<"1", "\n">>), Encode(<<"0", "\n">>)>> }
\* timeout, in delays
SrqTimeouts == {0, 1, 2}

\* wait_for_srq(timeout, delay) is called (117)
wait_for_srq(a, timeout) ==
    /\ AtRest
    /\ srq.pc = "idle"
    /\ Alive(a)
    /\ IsOpen(adapters[a].connection)
    /\ srq' = [pc |-> "poll", adapter |-> a, timeout |-> timeout, elapsed |-> 0,
               polled |-> FALSE, answer |-> 0, lines |-> <<>>]
    /\ called' = CallOf("wait_for_srq", a, <<>>, FALSE)
    /\ UNCHANGED <<adapters, connections>>

\* int(self.ask("++srq")) != 1 (123): the poll and the test of the loop
SrqPoll(lines) ==
    /\ srq.pc = "poll"
    /\ \E a \in {srq.adapter} : \E c \in {adapters[a].connection} :
          /\ Len(connections[c].link) < MaxLink
          /\ connections' = [connections EXCEPT
                                ![c].link = @ \o WriteEntries(a, adapters[a].address, srqQuery)
                                              \o WriteEntries(a, adapters[a].address, readQuery)]
          /\ \E n \in {IntOf(ReadText(lines))} :
                /\ srq' = [srq EXCEPT
                              !.polled = TRUE,
                              !.lines = lines,
                              !.answer = n.value,
                              !.pc = IF ~n.ok THEN "raised"
                                     ELSE IF SrqContinue(n.value, srq.elapsed, srq.timeout)
                                     THEN "sleep"
                                     ELSE "returned"]
                /\ called' = CallOf("ask", a, srqQuery, ~n.ok)
    /\ UNCHANGED adapters

\* sleep(delay) (124)
SrqSleep ==
    /\ srq.pc = "sleep"
    /\ srq' = [srq EXCEPT !.pc = "poll",
                          !.elapsed = IF @ < MaxElapsed THEN @ + 1 ELSE @]
    /\ called' = CallOf("sleep", srq.adapter, <<>>, FALSE)
    /\ UNCHANGED <<adapters, connections>>

\* read(), its first line: self.write("++read") (104)
adapterReadRequest(a) ==
    /\ AtRest
    /\ srq.pc = "idle"
    /\ Alive(a)
    /\ IsOpen(adapters[a].connection)
    /\ Len(connections[adapters[a].connection].link) < MaxLink
    /\ connections' = [connections EXCEPT
                          ![adapters[a].connection].link =
                              @ \o WriteEntries(a, adapters[a].address, readQuery)]
    /\ adapters' = [adapters EXCEPT ![a].pc = "collect"]
    /\ called' = CallOf("read", a, readQuery, FALSE)
    /\ UNCHANGED srq

\* read(), its second line: readlines() gives lines, and read returns (105)
adapterReadCollect(a, lines) ==
    /\ Alive(a)
    /\ adapters[a].pc = "collect"
    /\ adapters' = [adapters EXCEPT ![a].pc = "idle"]
    /\ called' = [op |-> "returned", adapter |-> a, command |-> readQuery, raised |-> FALSE,
                  lines |-> lines, text |-> ReadText(lines)]
    /\ UNCHANGED <<connections, srq>>

\* An adapter has been made from a port, with or without address, and the
\* controller has taken its first lines.
InitSrq ==
    /\ CodecAtRest
    /\ \E addr \in PortAddresses :
          adapters = [a \in 1..MaxAdapters |-> IF a = 1 THEN Made(addr, 1, 0) ELSE NoAdapter]
    /\ connections = [c \in 1..MaxConnections |->
                         IF c = 1 THEN [state |-> "open", link |-> <<>>] ELSE NoConnection]
    /\ called = CallOf("taken", 0, <<>>, FALSE)
    /\ srq = SrqIdle

NextSrq ==
    \/ \E a \in 1..MaxAdapters, timeout \in SrqTimeouts :
          wait_for_srq(a, timeout) /\ UNCHANGED <<codecVars, crcVars>>
    \/ \E lines \in SrqLines : SrqPoll(lines) /\ UNCHANGED <<codecVars, crcVars>>
    \/ SrqSleep /\ UNCHANGED <<codecVars, crcVars>>
    \/ \E a \in 1..MaxAdapters : adapterReadRequest(a) /\ UNCHANGED <<codecVars, crcVars>>
    \/ \E a \in 1..MaxAdapters, lines \in SrqLines :
          adapterReadCollect(a, lines) /\ UNCHANGED <<codecVars, crcVars>>
    \/ \E c \in 1..MaxConnections :
          ControllerTakes(c) /\ UNCHANGED <<codecVars, crcVars>>

SpecSrq == InitSrq /\ [][NextSrq]_vars

(***************************************************************************)
(* PrologixAdapter.write (87-97) one connection.write at a time: two       *)
(* adapters on one connection, nothing keeping their calls apart.          *)
(***************************************************************************)
\* The first half of write that writes no address directive.
WriteAddressSkipped(a, command) ==
    /\ Alive(a)
    /\ adapters[a].pc = "idle"
    /\ IsOpen(adapters[a].connection)
    /\ Len(connections[adapters[a].connection].link) < MaxLink
    /\ adapters' = [adapters EXCEPT ![a].pc = "command", ![a].command = command]
    /\ called' = CallOf("write", a, command, FALSE)
    /\ UNCHANGED <<connections, srq>>

\* write(command) up to the address directive (93-95)
WriteAddress(a, command) ==
    /\ Alive(a)
    /\ adapters[a].pc = "idle"
    /\ IsOpen(adapters[a].connection)
    /\ Len(connections[adapters[a].connection].link) < MaxLink
    /\ connections' = [connections EXCEPT
                          ![adapters[a].connection].link =
                              IF adapters[a].address.bound
                              THEN @ \o <<Entry(a, Encode(AddressCommand(adapters[a].address.n)))>>
                              ELSE @]
    /\ adapters' = [adapters EXCEPT ![a].pc = "command", ![a].command = command]
    /\ called' = CallOf("write", a, command, FALSE)
    /\ UNCHANGED srq

\* write(command) from there: the command and its newline (96-97)
WriteCommand(a) ==
    /\ Alive(a)
    /\ adapters[a].pc = "command"
    /\ connections' = [connections EXCEPT
                          ![adapters[a].connection].link =
                              @ \o <<Entry(a, Encode(adapters[a].command \o <<"\n">>))>>]
    /\ adapters' = [adapters EXCEPT ![a].pc = "idle", ![a].command = <<>>]
    /\ called' = CallOf("written", a, adapters[a].command, FALSE)
    /\ UNCHANGED srq

\* An adapter made from a port and one made from it by gpib, and the
\* controller has taken the first lines.
InitRace ==
    /\ CodecAtRest
    /\ \E addr \in PortAddresses, n \in GpibAddresses :
          adapters = [a \in 1..MaxAdapters |->
                         IF a = 1 THEN Made(addr, 1, 0)
                         ELSE IF a = 2 THEN Made(Bound(n), 1, 1)
                         ELSE NoAdapter]
    /\ connections = [c \in 1..MaxConnections |->
                         IF c = 1 THEN [state |-> "open", link |-> <<>>] ELSE NoConnection]
    /\ called = CallOf("taken", 0, <<>>, FALSE)
    /\ srq = SrqIdle

NextRace ==
    \/ \E a \in 1..MaxAdapters, command \in Commands :
          WriteAddress(a, command) /\ UNCHANGED <<codecVars, crcVars>>
    \/ \E a \in 1..MaxAdapters : WriteCommand(a) /\ UNCHANGED <<codecVars, crcVars>>
    \/ \E c \in 1..MaxConnections :
          ControllerTakes(c) /\ UNCHANGED <<codecVars, crcVars>>

SpecRace == InitRace /\ [][NextRace]_vars

(***************************************************************************)
(* What the claims are stated with: the function codes of the frame        *)
(* format, big-endian fields and decimal text, defined apart from the      *)
(* operators of the codec.                                                 *)
(***************************************************************************)
\* Read = 0x03, WriteSingle = 0x06, Echo = 0x08, WriteMultiple = 0x10
CodeOf(f) ==
    IF f = tokR THEN 3
    ELSE IF f = tokWRITESINGLE THEN 6
    ELSE IF f = tokECHO THEN 8
    ELSE IF f = tokW THEN 16
    ELSE 0

\* The two big-endian bytes of n in 0..65535.
Field2(n) == <<n \div 256, n % 256>>

\* The frame with its last two bytes cut off, and those two bytes.
Body(frame) == SubSeq(frame, 1, Len(frame) - 2)
Trailer(frame) == SubSeq(frame, Len(frame) - 1, Len(frame))
WellChecked(frame) == Len(frame) >= 2 /\ Trailer(frame) = ModbusCRC(Body(frame))

RECURSIVE Unsigned(_)
\* The big-endian unsigned value of at most three bytes.
Unsigned(bytes) ==
    IF bytes = <<>> THEN 0
    ELSE Head(bytes) * Pow2(8 * (Len(bytes) - 1)) + Unsigned(Tail(bytes))

\* The integer whose big-endian two's-complement form is bytes (at most four).
SignedOf(bytes) ==
    IF bytes = <<>> THEN 0
    ELSE LET first == IF Head(bytes) >= 128 THEN Head(bytes) - 256 ELSE Head(bytes)
         IN  first * Pow2(8 * (Len(bytes) - 1)) + Unsigned(Tail(bytes))

RECURSIVE DigitSum(_, _)
\* The value of decimal digits, each taken with the sign given.
DigitSum(text, sign) ==
    IF text = <<>> THEN 0
    ELSE LET d == CHOOSE k \in 0..9 : DigitsLower[k + 1] = text[Len(text)]
         IN  10 * DigitSum(SubSeq(text, 1, Len(text) - 1), sign) + sign * d

\* text is the decimal string of the integer v: digits without leading zeros,
\* after a minus sign exactly when v is negative.
IsDecimalOf(text, v) ==
    LET negative == text # <<>> /\ text[1] = "-"
        digits == IF negative THEN Tail(text) ELSE text
    IN  /\ digits # <<>>
        /\ \A i \in 1..Len(digits) : \E k \in 0..9 : DigitsLower[k + 1] = digits[i]
        /\ Len(digits) > 1 => digits[1] # "0"
        /\ negative => digits # <<"0">>
        /\ v = DigitSum(digits, IF negative THEN -1 ELSE 1)

\* xwrite has just returned: the frame it handed to the transport.
Encoded == last.op = "xwrite" /\ last.outcome.kind = "return"
Frame == tx[1]

(***************************************************************************)
(* C2: every frame xwrite hands to the transport, for each function kind   *)
(* R, W, WRITESINGLE and ECHO, starts with the device address and the      *)
(* function code and ends with the Modbus CRC16 of all bytes before it,    *)
(* low byte first.                                                         *)
(***************************************************************************)
C2_FrameHeaderAndCrc ==
    Encoded =>
        /\ Len(tx) = 1
        /\ last.function \in {tokR, tokW, tokWRITESINGLE, tokECHO}
        /\ Len(Frame) >= 6
        /\ Frame[1] = address
        /\ Frame[2] = CodeOf(last.function)
        /\ WellChecked(Frame)

\* An ECHO frame with test data has been written by a device at address 17.
C2_Witness ==
    /\ Encoded
    /\ address = 17
    /\ last.function = tokECHO
    /\ Len(last.valueToks) = 1
    /\ Len(Frame) = 8

(***************************************************************************)
(* C3 as claimed: a response of any kind whose last two bytes are not the  *)
(* CRC16 of the bytes before them makes xread raise a connection error,    *)
(* and nothing else. The frames are those the decoder delimits as the      *)
(* device sent them: the changed bit lies behind the function code, and    *)
(* not in the length byte of a read response; an error response is one     *)
(* whose function code has bit 0x80.                                       *)
(***************************************************************************)
C3_BadCrcAlwaysConnectionError ==
    (/\ last.op = "xread"
     /\ last.sent.op = "sent"
     /\ last.sent.flipped > 2
     /\ ~(last.sent.kind = "read" /\ last.sent.flipped = 3)
     /\ last.sent.kind = "error" => last.sent.frame[2] >= 128
     /\ ~WellChecked(last.sent.frame))
        => /\ last.outcome.kind = "raise"
           /\ last.outcome.exc = "ConnectionError"

(***************************************************************************)
(* C4: a well-formed read, write or echo response with one bit of its      *)
(* payload changed makes xread raise the integrity error; no value is      *)
(* returned.                                                               *)
(***************************************************************************)
PayloadFlipped ==
    /\ last.op = "xread"
    /\ last.sent.op = "sent"
    /\ last.sent.kind \in {"read", "write", "echo"}
    /\ last.sent.flipped >= last.sent.payloadAt
    /\ last.sent.flipped < last.sent.payloadAt + last.sent.payloadLen

C4_PayloadBitFlipDetected ==
    PayloadFlipped =>
        /\ WellChecked(last.sent.good)
        /\ last.outcome.kind = "raise"
        /\ last.outcome.exc = "ConnectionError"
        /\ last.outcome.msg = "Response CRC does not match."
        /\ ~last.outcome.hasValue

\* The last payload byte of a 4-byte read response was changed and decoded.
C4_Witness ==
    /\ PayloadFlipped
    /\ last.sent.kind = "read"
    /\ last.sent.payloadLen = 4
    /\ last.sent.flipped = 7
    /\ last.outcome.exc = "ConnectionError"

(***************************************************************************)
(* C5: a read response [address, 0x03, L, L payload bytes, CRC] with the   *)
(* right CRC decodes to the decimal string of the payload read as one      *)
(* big-endian two's-complement integer.                                    *)
(***************************************************************************)
ReadDecoded ==
    /\ last.op = "xread"
    /\ last.sent.op = "sent"
    /\ last.sent.kind = "read"
    /\ last.sent.flipped = 0

C5_ReadDecodesSigned ==
    ReadDecoded =>
        LET frame == last.sent.frame
            payload == SubSeq(frame, 4, Len(frame) - 2)
        IN  /\ frame[2] = 3
            /\ frame[3] = Len(payload)
            /\ WellChecked(frame)
            /\ last.outcome.kind = "return"
            /\ last.outcome.hasValue
            /\ IsDecimalOf(last.outcome.text, SignedOf(payload))
            /\ rx = <<>>

\* 01 03 04 00 00 03 E8 FA 8D has been decoded to "1000".
C5_Witness ==
    /\ ReadDecoded
    /\ last.input = <<1, 3, 4, 0, 0, 3, 232, 250, 141>>
    /\ last.outcome.text = <<"1", "0", "0", "0">>

(***************************************************************************)
(* C6: the frame of a W command with n values is [device address, 0x10,    *)
(* register address (2 bytes), element count (2 bytes), byte count, the    *)
(* values, CRC]; the element count is n * byteMode / 2, the byte count is  *)
(* twice that and is the number of value bytes, and every value stands in  *)
(* command order as byteMode bytes, big-endian two's complement.           *)
(***************************************************************************)
WEncoded == Encoded /\ last.function = tokW

C6_WriteFrameLayout ==
    WEncoded =>
        LET n == Len(last.valueToks)
            elements == (n * byteMode) \div 2
            valueBytes == SubSeq(Frame, 8, Len(Frame) - 2)
        IN  /\ Len(Frame) = 9 + n * byteMode
            /\ SubSeq(Frame, 1, 2) = <<address, 16>>
            /\ SubSeq(Frame, 3, 4) = Field2(last.addressTok.value)
            /\ SubSeq(Frame, 5, 6) = Field2(elements)
            /\ Frame[7] = 2 * elements
            /\ Frame[7] = Len(valueBytes)
            /\ \A i \in 1..n :
                  SignedOf(SubSeq(valueBytes, (i - 1) * byteMode + 1, i * byteMode))
                      = last.valueToks[i].value
            /\ WellChecked(Frame)

\* A W frame with two values in 4-byte mode, the second value negative.
C6_Witness ==
    /\ WEncoded
    /\ byteMode = 4
    /\ Len(last.valueToks) = 2
    /\ last.valueToks[1].value = 32768
    /\ last.valueToks[2].value = -1

(***************************************************************************)
(* C7: the frame of an R command is [device address, 0x03, register        *)
(* address (2 bytes), element count (2 bytes), CRC]; the element count is  *)
(* c * byteMode / 2 for a count argument c and byteMode / 2 without one.   *)
(***************************************************************************)
REncoded == Encoded /\ last.function = tokR

C7_ReadFrameLayout ==
    REncoded =>
        LET count == IF last.valueToks # <<>>
                     THEN (last.valueToks[1].value * byteMode) \div 2
                     ELSE byteMode \div 2
        IN  /\ Len(Frame) = 8
            /\ SubSeq(Frame, 1, 2) = <<address, 3>>
            /\ SubSeq(Frame, 3, 4) = Field2(last.addressTok.value)
            /\ SubSeq(Frame, 5, 6) = Field2(count)
            /\ WellChecked(Frame)

\* An R frame without a count argument in 4-byte mode: two elements.
C7_Witness ==
    /\ REncoded
    /\ byteMode = 4
    /\ last.valueToks = <<>>
    /\ last.addressTok.value = 262
    /\ SubSeq(Frame, 3, 6) = <<1, 6, 0, 2>>

(***************************************************************************)
(* C8: the frame of an ECHO command has the register address 00 00         *)
(* whatever address the command names, keeps the device address and the    *)
(* function code 0x08, and carries a 2-byte big-endian test value exactly  *)
(* when a value is given.                                                  *)
(***************************************************************************)
EchoEncoded == Encoded /\ last.function = tokECHO

C8_EchoFrameLayout ==
    EchoEncoded =>
        /\ SubSeq(Frame, 1, 4) = <<address, 8, 0, 0>>
        /\ last.valueToks = <<>> => Len(Frame) = 6
        /\ last.valueToks # <<>> =>
              /\ Len(Frame) = 8
              /\ SubSeq(Frame, 5, 6) = Field2(last.valueToks[1].value)
        /\ WellChecked(Frame)

\* An ECHO frame for a command that names register 0x106 and a test value.
C8_Witness ==
    /\ EchoEncoded
    /\ last.addressTok.value = 262
    /\ last.valueToks # <<>>
    /\ last.valueToks[1].value = 1234
    /\ SubSeq(Frame, 3, 6) = <<0, 0, 4, 210>>

(***************************************************************************)
(* C9: a command rejected as malformed (unknown function, missing or       *)
(* unparsable address, address or value that does not fit its field) is    *)
(* rejected before anything reaches the transport: the step of the         *)
(* rejected xwrite or write leaves the transport and the instrument as     *)
(* they were.                                                              *)
(***************************************************************************)
Rejected(l) ==
    /\ l.op \in {"xwrite", "write"}
    /\ l.outcome.kind = "raise"
    /\ ~l.handler

C9_RejectedWritesNothing ==
    [][Rejected(last') => UNCHANGED <<tx, rx, buffer, address, byteMode>>]_vars

\* xwrite has rejected a value that does not fit its field; nothing is on the line.
C9_Witness ==
    /\ Rejected(last)
    /\ last.op = "xwrite"
    /\ last.outcome.exc = "OverflowError"
    /\ last.addressTok.form = "hex"
    /\ tx = <<>>

(***************************************************************************)
(* C10 as claimed: write accepts every command whose function is one of R, *)
(* W, WW, WRITESINGLE, ECHO, RF and whose address is a decimal or 0x hex   *)
(* number (here a register address 0..65535, with at most one value, a     *)
(* number as well): the command reaches the handler of its function.       *)
(***************************************************************************)
C10_EveryFunctionDispatched ==
    (/\ last.op = "write"
     /\ last.function \in {tokR, tokW, tokWW, tokWRITESINGLE, tokECHO, tokRF}
     /\ last.addressTok.form \in {"dec", "hex"}
     /\ last.addressTok.value \in 0..65535
     /\ Len(last.valueToks) <= 1
     /\ \A i \in 1..Len(last.valueToks) : last.valueToks[i].form = "dec")
        => last.handler

(***************************************************************************)
(* What the error decode is stated with: xread has returned from a         *)
(* response of at least five bytes, and the exception it raised is the one *)
(* of the error code in the third byte.                                    *)
(***************************************************************************)
Received == last.input
XreadOf(codes) ==
    /\ last.op = "xread"
    /\ Len(Received) >= 5
    /\ Received[2] \in codes

RaisedForErrorCode ==
    /\ last.outcome.kind = "raise"
    /\ ~last.outcome.hasValue
    /\ Received[3] = 2 =>
          last.outcome.exc = "ValueError" /\ last.outcome.msg = "Wrong start address."
    /\ Received[3] = 3 =>
          last.outcome.exc = "ValueError" /\ last.outcome.msg = "Variable data error."
    /\ Received[3] = 4 =>
          last.outcome.exc = "ValueError" /\ last.outcome.msg = "Operation error."
    /\ Received[3] \notin {2, 3, 4} =>
          /\ last.outcome.exc = "ConnectionError"
          /\ last.outcome.raw = SubSeq(Received, 1, 5)

(***************************************************************************)
(* C11: for a response whose function byte has bit 0x80 set, xread raises  *)
(* ValueError with "Wrong start address." for error code 0x02, "Variable   *)
(* data error." for 0x03 and "Operation error." for 0x04, and for every    *)
(* other error code a ConnectionError that carries the five bytes          *)
(* received; it never returns a value.                                     *)
(***************************************************************************)
C11_ErrorResponseRaises ==
    XreadOf(128..255) => RaisedForErrorCode

\* The device has answered 0x83 with error code 0x03, and xread has raised
\* "Variable data error.".
C11_Witness ==
    /\ XreadOf({131})
    /\ last.sent.op = "sent"
    /\ last.sent.flipped = 0
    /\ Received[3] = 3
    /\ last.outcome.exc = "ValueError"
    /\ last.outcome.msg = "Variable data error."
    /\ rx = <<>>

(***************************************************************************)
(* C12 as claimed: a response whose function byte has bit 0x80 clear and   *)
(* is none of 0x03, 0x10, 0x08 makes xread return without a value and      *)
(* without raising. The responses are those that arrive as the device      *)
(* sent them.                                                              *)
(***************************************************************************)
UnknownCodes == (0..127) \ {3, 16, 8}

C12_UnknownFunctionReturnsNothing ==
    (XreadOf(UnknownCodes) /\ last.sent.op = "sent" /\ last.sent.flipped = 0)
        => /\ last.outcome.kind = "return"
           /\ ~last.outcome.hasValue

(***************************************************************************)
(* C12 amended: a response whose function byte has bit 0x80 clear and is   *)
(* none of 0x03, 0x10, 0x08 is decoded as an error response: xread reads   *)
(* three more bytes, raises the exception of the error code in the first   *)
(* of them and leaves what follows unread; it never returns.               *)
(***************************************************************************)
C12_UnknownFunctionRaises ==
    XreadOf(UnknownCodes) =>
        /\ RaisedForErrorCode
        /\ rx = SubSeq(Received, 6, Len(Received))

\* The device has answered a WRITESINGLE request for register 0x0206 with
\* the frame of the request; xread has raised "Wrong start address." and
\* three bytes of the answer are still unread.
C12_Witness ==
    /\ XreadOf({6})
    /\ last.sent.op = "sent"
    /\ last.sent.flipped = 0
    /\ Len(Received) = 8
    /\ Received[3] = 2
    /\ last.outcome.exc = "ValueError"
    /\ Len(rx) = 3

(***************************************************************************)
(* What the round trips are stated with: xread has returned from the       *)
(* answer of the device to the frame of an accepted xwrite call.           *)
(***************************************************************************)
Answered(f) ==
    /\ last.op = "xread"
    /\ last.sent.op = "sent"
    /\ last.sent.call.op = "xwrite"
    /\ last.sent.call.function = f
Call == last.sent.call

(***************************************************************************)
(* C13: for every W command xwrite accepts, the success response [device   *)
(* address, 0x10, start address, element count, CRC] to it makes xread     *)
(* return without raising and without a value; the response is read to its *)
(* end.                                                                    *)
(***************************************************************************)
C13_WriteRoundTrip ==
    (/\ Answered(tokW)
     /\ Call.addressTok.value \in 0..65535
     /\ Received = DeviceFrame(<<address, 16>> \o Field2(Call.addressTok.value)
                                  \o Field2((Len(Call.valueToks) * byteMode) \div 2)))
        => /\ last.outcome.kind = "return"
           /\ ~last.outcome.hasValue
           /\ rx = <<>>

\* "W,0x106,250" in four-byte mode has been answered and decoded.
C13_Witness ==
    /\ Answered(tokW)
    /\ byteMode = 4
    /\ Call.addressTok.form = "hex"
    /\ Call.addressTok.value = 262
    /\ Len(Call.valueToks) = 1
    /\ Call.valueToks[1].value = 250
    /\ Received = DeviceFrame(<<address, 16, 1, 6, 0, 2>>)
    /\ last.outcome.kind = "return"

(***************************************************************************)
(* C14: for every test value v in 0..65535, the echo response carrying the *)
(* two data bytes of v (zero address, data, CRC) in answer to "ECHO,0,v"   *)
(* makes xread return the decimal string of v.                             *)
(***************************************************************************)
EchoCall ==
    /\ Answered(tokECHO)
    /\ Call.addressTok.form = "dec"
    /\ Call.addressTok.value = 0
    /\ Len(Call.valueToks) = 1
    /\ Call.valueToks[1].form = "dec"
    /\ Call.valueToks[1].value \in 0..65535
    /\ Received = DeviceFrame(<<address, 8, 0, 0>> \o Field2(Call.valueToks[1].value))

C14_EchoRoundTrip ==
    EchoCall =>
        /\ last.outcome.kind = "return"
        /\ last.outcome.hasValue
        /\ IsDecimalOf(last.outcome.text, Call.valueToks[1].value)

\* "ECHO,0,65535" has come back as "65535".
C14_Witness ==
    /\ EchoCall
    /\ Call.valueToks[1].value = 65535
    /\ last.outcome.text = <<"6", "5", "5", "3", "5">>

(***************************************************************************)
(* C15 as claimed: with a device that echoes the test data in a            *)
(* well-formed response, ping(test_data) completes without error for every *)
(* test_data in 0..65535.                                                  *)
(***************************************************************************)
C15_PingCompletesWhenEchoed ==
    (last.op = "ping" /\ last.testData \in 0..65535)
        => last.outcome.kind = "return"

(***************************************************************************)
(* What the adapter claims are stated with: the bytes of the lines on the  *)
(* link, written out apart from the operators of the adapter.              *)
(***************************************************************************)
RECURSIVE DecimalBytes(_)
\* The ASCII digits of a natural number.
DecimalBytes(n) ==
    IF n < 10 THEN <<48 + n>> ELSE DecimalBytes(n \div 10) \o <<48 + (n % 10)>>

\* "++addr n\n"
AddrLine(n) == <<43, 43, 97, 100, 100, 114, 32>> \o DecimalBytes(n) \o <<10>>
\* "*IDN?\n" and "++ver\n"
CommandLine(command) ==
    IF command = idnQuery THEN <<42, 73, 68, 78, 63, 10>>
    ELSE IF command = verQuery THEN <<43, 43, 118, 101, 114, 10>>
    ELSE <<>>
\* "++auto 0\n", "++eoi 1\n", "++eos 2\n"
InitLines ==
    << <<43, 43, 97, 117, 116, 111, 32, 48, 10>>,
       <<43, 43, 101, 111, 105, 32, 49, 10>>,
       <<43, 43, 101, 111, 115, 32, 50, 10>> >>

\* What a write of adapter a puts on the link.
Puts(a, command) ==
    IF adapters[a].address.bound
    THEN <<[by |-> a, bytes |-> AddrLine(adapters[a].address.n)],
           [by |-> a, bytes |-> CommandLine(command)]>>
    ELSE <<[by |-> a, bytes |-> CommandLine(command)]>>

LinkOf(a) == connections[adapters[a].connection].link

(***************************************************************************)
(* C16: with writes that run one after the other, by any adapters on one   *)
(* connection, every write of an adapter bound to address n (0 included)   *)
(* appends "++addr n\n" and then command + "\n" to what is on the link,    *)
(* and every write of an adapter with no address appends command + "\n"    *)
(* alone; the rest of the link and all else stay as they were.             *)
(***************************************************************************)
C16_WritePutsAddressThenCommand ==
    [][(called'.op = "write" /\ ~called'.raised) =>
          \E a \in {called'.adapter} : \E c \in {adapters[a].connection} :
             /\ connections'[c].link = connections[c].link \o Puts(a, called'.command)
             /\ connections'[c].state = connections[c].state
             /\ \A d \in 1..MaxConnections : d # c => connections'[d] = connections[d]
             /\ adapters' = adapters]_vars

\* An adapter bound to address 0 has written "*IDN?" after an adapter
\* without address on the same connection wrote "++ver".
C16_Witness ==
    /\ called.op = "write"
    /\ ~called.raised
    /\ called.command = idnQuery
    /\ adapters[called.adapter].address = Bound(0)
    /\ Len(LinkOf(called.adapter)) = 3
    /\ LinkOf(called.adapter)[1].by # called.adapter
    /\ LinkOf(called.adapter)[1].bytes = <<43, 43, 118, 101, 114, 10>>
    /\ LinkOf(called.adapter)[2].bytes = <<43, 43, 97, 100, 100, 114, 32, 48, 10>>
    /\ LinkOf(called.adapter)[3].bytes = <<42, 73, 68, 78, 63, 10>>

(***************************************************************************)
(* C17 as claimed: the connection of every adapter that exists is open: a  *)
(* connection is not closed before the last adapter that shares it is      *)
(* deleted.                                                                *)
(***************************************************************************)
C17_SharedConnectionStaysOpen ==
    \A a \in 1..MaxAdapters :
        Alive(a) => connections[adapters[a].connection].state = "open"

(***************************************************************************)
(* C18: an adapter made by gpib(address) or from the connection of an      *)
(* adapter has the connection of that adapter, and making it leaves every  *)
(* connection as it was, nothing written; a connection comes into being    *)
(* only when an adapter is made from the name of a port, and then it is    *)
(* open and holds "++auto 0", "++eoi 1", "++eos 2" in that order (each     *)
(* behind the address directive of the new adapter when it has an          *)
(* address) and nothing else.                                              *)
(***************************************************************************)
RECURSIVE WithoutDirective(_, _)
\* The bytes of the entries of a link other than the address directive.
WithoutDirective(link, directive) ==
    IF link = <<>> THEN <<>>
    ELSE IF Head(link).bytes = directive THEN WithoutDirective(Tail(link), directive)
    ELSE <<Head(link).bytes>> \o WithoutDirective(Tail(link), directive)

JoinedStep ==
    \E a \in {called'.adapter} :
       /\ adapters[a].state = "none"
       /\ adapters'[a].state = "alive"
       /\ adapters'[a].from \in 1..MaxAdapters
       /\ adapters'[a].connection = adapters[adapters'[a].from].connection
       /\ connections' = connections

OpenedStep ==
    \E a \in {called'.adapter} : \E c \in {adapters'[a].connection} :
       /\ adapters[a].state = "none"
       /\ adapters'[a].state = "alive"
       /\ connections[c].state = "none"
       /\ connections'[c].state = "open"
       /\ \A d \in 1..MaxConnections : d # c => connections'[d] = connections[d]
       /\ IF adapters'[a].address.bound
          THEN /\ Len(connections'[c].link) = 6
               /\ \A i \in {1, 3, 5} :
                     connections'[c].link[i].bytes = AddrLine(adapters'[a].address.n)
               /\ WithoutDirective(connections'[c].link, AddrLine(adapters'[a].address.n))
                     = InitLines
          ELSE [i \in 1..Len(connections'[c].link) |-> connections'[c].link[i].bytes]
                     = InitLines

C18_OnlyPortConstructionInitializes ==
    [][/\ called'.op \in {"gpib", "connection"} => JoinedStep
       /\ called'.op = "port" => OpenedStep
       /\ (\E c \in 1..MaxConnections :
              connections[c].state = "none" /\ connections'[c].state # "none")
             => called'.op = "port"]_vars

\* gpib(5) on an adapter made from a port: the new adapter has the
\* connection of the first, which holds the three lines of its opening.
C18_Witness ==
    /\ called.op = "gpib"
    /\ called.adapter = 2
    /\ adapters[2].from = 1
    /\ adapters[2].address = Bound(5)
    /\ adapters[1].address = None
    /\ adapters[2].connection = adapters[1].connection
    /\ Len(connections[adapters[1].connection].link) = 3
    /\ connections[adapters[1].connection].state = "open"

(***************************************************************************)
(* C19: wait_for_srq returns if and only if a "++srq" poll reports 1. It   *)
(* has returned exactly when its last poll gave the line "1"; it sleeps    *)
(* only after a poll that gave a number other than 1, and it ends with an  *)
(* error only on an answer that is no number. Neither the timeout nor the  *)
(* time slept has a part in it: as long as no poll reports 1 the call does *)
(* not return, whatever the timeout.                                       *)
(***************************************************************************)
\* readlines() gave "1\r\n", "0\r\n"
ReportsOne == srq.polled /\ srq.lines = << <<49, 13, 10>> >>
ReportsZero == srq.polled /\ srq.lines = << <<48, 13, 10>> >>

C19_ReturnsIffPollReportsOne ==
    /\ srq.pc = "returned" <=> ReportsOne
    /\ srq.pc = "sleep" => ReportsZero
    /\ srq.pc = "raised" => (srq.polled /\ ~ReportsOne /\ ~ReportsZero)
    /\ (srq.pc = "poll" /\ srq.polled) => ReportsZero

\* wait_for_srq(timeout) with a timeout of two delays has slept three
\* delays, every poll has reported 0, and it is about to poll again.
C19_Witness ==
    /\ srq.pc = "poll"
    /\ srq.timeout = 2
    /\ srq.elapsed = 3
    /\ ReportsZero
    /\ adapters[srq.adapter].address = Bound(5)

(***************************************************************************)
(* C20: with the writes of two adapters on one connection interleaved one  *)
(* connection.write at a time, a command line can follow the address       *)
(* directive of the other adapter. Every command line of a bound adapter   *)
(* still has the adapter's own directive before it, and nothing of that    *)
(* adapter in between; the command is misdirected exactly when a directive *)
(* of another address was written in between.                              *)
(***************************************************************************)
IsDirective(e) == \E n \in 0..30 : e.bytes = AddrLine(n)
Link == connections[1].link

\* Entry i of the link is a command of a bound adapter, and the directive
\* nearest before it names another address.
Misdirected(i) ==
    /\ ~IsDirective(Link[i])
    /\ adapters[Link[i].by].address.bound
    /\ \E j \in 1..(i - 1) :
          /\ IsDirective(Link[j])
          /\ \A k \in (j + 1)..(i - 1) : ~IsDirective(Link[k])
          /\ Link[j].bytes # AddrLine(adapters[Link[i].by].address.n)

C20_MisdirectedWhenInterleaved ==
    \A i \in 1..Len(Link) :
        (~IsDirective(Link[i]) /\ adapters[Link[i].by].address.bound) =>
            \E j \in 1..(i - 1) :
               /\ Link[j] = [by |-> Link[i].by,
                             bytes |-> AddrLine(adapters[Link[i].by].address.n)]
               /\ \A k \in (j + 1)..(i - 1) : Link[k].by # Link[i].by
               /\ Misdirected(i) <=>
                     \E k \in (j + 1)..(i - 1) :
                        /\ IsDirective(Link[k])
                        /\ Link[k].bytes # Link[j].bytes

\* Adapter 1 (address 5) has written "*IDN?" after adapter 2 (address 0)
\* wrote its directive: the link reads "++addr 5", "++addr 0", "*IDN?".
C20_Witness ==
    /\ Len(Link) = 3
    /\ Misdirected(3)
    /\ Link[1] = [by |-> 1, bytes |-> <<43, 43, 97, 100, 100, 114, 32, 53, 10>>]
    /\ Link[2] = [by |-> 2, bytes |-> <<43, 43, 97, 100, 100, 114, 32, 48, 10>>]
    /\ Link[3] = [by |-> 1, bytes |-> <<42, 73, 68, 78, 63, 10>>]
    /\ adapters[2].pc = "command"

(***************************************************************************)
(* C21: read() on an adapter first writes "++read\n", behind the adapter's *)
(* "++addr n\n" when it has an address, and collects the lines only after  *)
(* that: while it collects, and when it has returned, these are the last   *)
(* writes on the link, and collecting writes nothing. It returns the lines *)
(* in the order received, joined with newline characters, as text.         *)
(***************************************************************************)
\* "++read\n"
ReadLine == <<43, 43, 114, 101, 97, 100, 10>>

\* The last writes on the link of adapter a are those of its read request.
ReadRequested(a) ==
    \E n \in {Len(LinkOf(a))} :
       /\ n >= 1
       /\ LinkOf(a)[n] = [by |-> a, bytes |-> ReadLine]
       /\ adapters[a].address.bound =>
             /\ n >= 2
             /\ LinkOf(a)[n - 1] = [by |-> a, bytes |-> AddrLine(adapters[a].address.n)]
       /\ ~adapters[a].address.bound =>
             (n >= 2 => LinkOf(a)[n - 1].bytes # AddrLine(0))

\* The text of the lines the model's connection gives: nothing, "0\r\n",
\* "1\r\n", and "1\n" followed by "0\n".
JoinedText(lines) ==
    IF lines = <<>> THEN <<>>
    ELSE IF lines = << <<48, 13, 10>> >> THEN <<"0", "\r", "\n">>
    ELSE IF lines = << <<49, 13, 10>> >> THEN <<"1", "\r", "\n">>
    ELSE IF lines = << <<49, 10>>, <<48, 10>> >> THEN <<"1", "\n", "\n", "0", "\n">>
    ELSE <<"?">>

C21_ReadRequestsThenCollects ==
    /\ [](\A a \in 1..MaxAdapters : adapters[a].pc = "collect" => ReadRequested(a))
    /\ [](called.op = "returned" =>
             /\ ReadRequested(called.adapter)
             /\ called.text = JoinedText(called.lines))
    /\ [][called'.op = "returned" =>
             /\ adapters[called'.adapter].pc = "collect"
             /\ connections' = connections]_vars

\* read() on the adapter at address 5 has returned "1\n\n0\n" from the
\* lines "1\n" and "0\n"; the link holds "++addr 5\n", "++read\n".
C21_Witness ==
    /\ called.op = "returned"
    /\ adapters[called.adapter].address = Bound(5)
    /\ Len(LinkOf(called.adapter)) = 2
    /\ Len(called.lines) = 2
    /\ called.text = <<"1", "\n", "\n", "0", "\n">>

(***************************************************************************)
(* C22 as claimed: every instrument class, TC038D and YokogawaAQ6370       *)
(* included, is constructed by a call with adapter=<adapter object>, and   *)
(* with name=N in the call the name of the instrument is N.                *)
(***************************************************************************)
C22_ConstructedWithAdapterAndName ==
    (last.op = "construct" /\ last.adapterGiven) =>
        /\ last.outcome.kind = "return"
        /\ last.nameArg # "" => last.name = last.nameArg

(***************************************************************************)
(* C23.  What one call of the decoder takes off the line.                  *)
(***************************************************************************)
\* The bytes one call asks for, by the function code and the length byte it
\* reads: 2, then 1 + length + 2, or 6, or 3.
AskedFor(bytes) ==
    IF Len(bytes) < 2 THEN 2
    ELSE 2 + (IF bytes[2] = 3 THEN (IF Len(bytes) < 3 THEN 1 ELSE 1 + bytes[3] + 2)
              ELSE IF bytes[2] \in {16, 8} THEN 6
              ELSE 3)
TookOff == Len(Received) - Len(rx)
\* The response of the device is one of the four kinds the decoder frames:
\* read, write, echo, or an error response of five bytes.
FramedKind ==
    \/ last.sent.kind \in {"read", "write", "echo"}
    \/ last.sent.kind = "error" /\ Len(last.sent.good) = 5
\* The function code and, in a read response, the length byte came as sent.
FramingIntact ==
    /\ last.sent.frame[2] = last.sent.good[2]
    /\ last.sent.kind = "read" => last.sent.frame[3] = last.sent.good[3]

CompleteRequest(frame) ==
    /\ Len(frame) >= 6
    /\ frame[1] = address
    /\ frame[2] \in {3, 16, 8}
    /\ WellChecked(frame)
C24_RequestWrittenOnce ==
    /\ [][last'.op = "xwrite" =>
             IF last'.outcome.kind = "return"
             THEN Len(tx') = Len(tx) + 1 /\ CompleteRequest(tx'[Len(tx')])
             ELSE tx' = tx]_vars
    /\ [][tx' # tx => \/ last'.op = "xwrite"
                      \/ last'.op = "sent" /\ tx' = <<>>]_vars
    /\ [][last.op = "xread" => last'.op = "idle" /\ tx' = tx /\ rx' = rx]_vars
    /\ [](Len(tx) <= 1)
    /\ []((last.op = "xread" /\ last.sent.op = "sent") =>
             /\ tx = <<>>
             /\ last.sent.flipped > Len(last.sent.good) - 2 =>
                   last.outcome.kind = "raise" /\ last.outcome.exc = "ConnectionError"
             /\ (last.sent.kind = "error" /\ last.sent.flipped = 0) =>
                   last.outcome.kind = "raise" /\ last.outcome.exc = "ValueError")
\* The answer to a write request came with a bit of its checksum changed: the
\* decoder has raised and the line to the device is empty.
C24_Witness ==
    /\ last.op = "xread"
    /\ last.sent.op = "sent"
    /\ last.sent.call.function = tokW
    /\ last.sent.kind = "write"
    /\ last.sent.flipped = 8
    /\ last.outcome.exc = "ConnectionError"
    /\ tx = <<>>

(***************************************************************************)
(* C25: the round trip of a register value. For every value v in the       *)
(* signed range of the byte mode (2 or 4 bytes), the bytes xwrite puts     *)
(* into a W command for v, coming back as the payload of a well-formed     *)
(* read response, make xread return the decimal text of v, negative values *)
(* included; for a value outside the range xwrite raises and writes        *)
(* nothing, it does not cut the value down.                                *)
(***************************************************************************)
\* -2^(8n-1) .. 2^(8n-1) - 1, the upper end of four bytes being the largest
\* number there is here.
InSignedRange(v, n) ==
    IF n = 2 THEN v \in -32768..32767 ELSE v >= -2147483647 - 1 /\ v <= 2147483647
\* xread has decoded the read response that carries the value bytes of the
\* W request sent before.
ReadBackDecoded ==
    /\ Answered(tokW)
    /\ last.sent.kind = "read"
    /\ last.sent.flipped = 0
    /\ "request" \in DOMAIN last.sent
    /\ Call.valueToks # <<>>
    /\ Len(last.sent.request) >= 7 + byteMode + 2
    /\ Received = DeviceFrame(<<address, 3, byteMode>>
                                 \o SubSeq(last.sent.request, 8, 7 + byteMode))
C25_ValueRoundTrip ==
    /\ ReadBackDecoded =>
          /\ InSignedRange(Call.valueToks[1].value, byteMode)
          /\ last.outcome.kind = "return"
          /\ last.outcome.hasValue
          /\ IsDecimalOf(last.outcome.text, Call.valueToks[1].value)
          /\ last.outcome.text = Call.valueToks[1].text
    /\ (/\ last.op = "xwrite"
        /\ last.function = tokW
        /\ last.valueToks # <<>>) =>
          IF \A i \in 1..Len(last.valueToks) : InSignedRange(last.valueToks[i].value, byteMode)
          THEN /\ last.outcome.kind = "return"
               /\ Len(tx) = 1
               /\ Len(tx[1]) = 7 + Len(last.valueToks) * byteMode + 2
          ELSE /\ last.outcome.kind = "raise"
               /\ last.outcome.exc = "OverflowError"
               /\ tx = <<>>
\* -32768 has gone out in two bytes and come back as "-32768".
C25_Witness ==
    /\ ReadBackDecoded
    /\ byteMode = 2
    /\ Call.valueToks[1].value = -32768
    /\ SubSeq(Received, 4, 5) = <<128, 0>>
    /\ last.outcome.text = <<"-", "3", "2", "7", "6", "8">>

(***************************************************************************)
(* C26: the buffer of ModbusMixin. Only a write() that completes changes   *)
(* the buffer, to the result of its handler; a write() that raises leaves  *)
(* it as it was; read() and check_set_errors() never change it, and once a *)
(* write() has completed read() returns the text of the buffered result,   *)
(* the same text every time.                                               *)
(***************************************************************************)
\* str(rv) of what a handler returns: None or an integer.
StrOf(buf) ==
    IF buf.none THEN <<"N", "o", "n", "e">>
    ELSE IF buf.int = 1000 THEN <<"1", "0", "0", "0">>
    ELSE <<"?">>
HandlerResults == {[set |-> TRUE, none |-> TRUE, int |-> 0], [set |-> TRUE, none |-> FALSE, int |-> 1000]}
C26_ReadReturnsLastWritten ==
    /\ [][last'.op = "write" =>
             IF last'.outcome.kind = "raise" THEN buffer' = buffer
             ELSE buffer' \in HandlerResults]_vars
    /\ [][buffer' # buffer => last'.op = "write" /\ last'.outcome.kind = "return"]_vars
    /\ [][last'.op \in {"read", "check_set_errors"} => buffer' = buffer]_vars
    /\ []((last.op = "read" /\ buffer.set) =>
             /\ last.outcome.kind = "return"
             /\ last.outcome.hasValue
             /\ last.outcome.text = StrOf(buffer))
    /\ []((last.op = "check_set_errors" /\ buffer.set) => last.outcome.kind = "return")
\* 1000 was the result of the last write that completed, and read() has
\* returned "1000".
C26_Witness ==
    /\ last.op = "read"
    /\ buffer = [set |-> TRUE, none |-> FALSE, int |-> 1000]
    /\ last.outcome.text = <<"1", "0", "0", "0">>

(***************************************************************************)
(* C27: what the decoder gives (a text, nothing, or the error it raises)   *)
(* and what it leaves on the line are fixed by the bytes of the response   *)
(* alone, whatever the address and the byte mode of the instrument and     *)
(* whatever request went before. The address byte of the response and the  *)
(* function code of the request are never compared: a well-formed read,    *)
(* write or echo response is decoded also when it names another device or  *)
(* answers another function.                                               *)
(***************************************************************************)
\* The outcome the response bytes stand for, told from the bytes only.
OutcomeOf(bytes) == XreadOutcome(bytes).outcome
C27_OutcomeFromBytesAlone ==
    last.op = "xread" =>
        /\ last.outcome = OutcomeOf(Received)
        /\ rx = Drop(Received, Len(Received) - Len(rx))
        /\ (/\ last.sent.op = "sent"
            /\ last.sent.flipped = 0
            /\ last.sent.kind \in {"read", "write", "echo"}) =>
              /\ last.outcome.kind = "return"
              /\ last.outcome.hasValue = (last.sent.kind # "write")
\* A four-byte instrument has sent a write request and decoded the two-byte
\* read response of another device: "1000".
C27_Witness ==
    /\ last.op = "xread"
    /\ last.sent.op = "sent"
    /\ last.sent.call.function = tokW
    /\ byteMode = 4
    /\ Received[1] # address
    /\ SubSeq(Received, 2, 5) = <<3, 2, 3, 232>>
    /\ last.outcome.kind = "return"
    /\ last.outcome.text = <<"1", "0", "0", "0">>

=============================================================================
